---- MODULE Spec2Model ----
(***************************************************************************)
(* Model of the SSE relay of mcp-handler: the message endpoint (relay      *)
(* call), the broker (redis publish/subscribe) it talks through, the       *)
(* session side that answers relayed messages, and the SSE connection      *)
(* handler with its cleanup; and the session manager of                    *)
(* src/src/lib/session-manager.ts with its registry and connection monitor.*)
(*                                                                         *)
(* The repository holds two revisions of the handler:                      *)
(*   "A"  src/src/handler/mcp-api-handler.ts                               *)
(*   "B"  src/unnamed/part_007 (isCleanedUp guards, try/catch)             *)
(* The variable `version` says which revision a behaviour runs.            *)
(***************************************************************************)
EXTENDS Integers, Sequences, FiniteSets, TLC

\* ---------------------------------------------------------------- bounds
\* number of messages a foreign publisher may put on reply channels
MaxForeign == 1
\* number of subscribeWithTracking / unsubscribeWithTracking calls
MaxCalls == 2
\* number of hours the clock advances
MaxTicks == 2
\* number of requests the handler takes
MaxArrivals == 2

\* ------------------------------------------------------------ universes
Versions == {"A", "B"}
Relays == {"r1", "r2"}
SessionIds == {"S1", "S2"}
\* the session id for which an SSE session is subscribed in SpecRelay
OpenSession == "S1"
Undefined == "undefined"
EngineStatuses == {"202", "400"}
NoSession == "-"
\* config.maxDuration: not given, or a number of seconds
NoMaxDuration == [given |-> FALSE, seconds |-> 0]
MaxDurations == {NoMaxDuration, [given |-> TRUE, seconds |-> 30]}
\* session managers, and the channels they subscribe
Managers == {"m1", "m2"}
SmChannels == {"c1", "c2"}
\* a connectionHistory entry that is not there
NoTime == -1
\* 60 * 60 * 1000
HourMs == 3600000
\* the maxAgeMs arguments of cleanupStaleSessions: 0 and the default
MaxAges == {0, HourMs}
\* url.searchParams.get("sessionId") of a URL without the parameter
Null == "null"
\* values of the sessionId query parameter of a message request
QueryValues == SessionIds \cup {"", Null}

VARIABLES
  version,    \* revision of the handler
  relay,      \* one relay call (message endpoint request) per element of Relays
  listeners,  \* broker: <<channel, owner>>, owner's listener is on channel
  inflight,   \* broker: messages on their way to a listener
  foreign,    \* number of foreign messages published so far
  hm,         \* session side: the handleMessage invocation per relayed request
  sse,        \* the SSE connection handler of one session
  sess,       \* history of the session's message handling
  sm,         \* the session managers, their registry and connection monitor
  http,       \* the request handler: configuration, module state, requests
  rt,         \* one message relayed from the message endpoint and back
  wa          \* one call of a handler wrapped by withMcpAuth

vars == <<version, relay, listeners, inflight, foreign, hm, sse, sess, sm, http, rt, wa>>

\* A relay call before the request arrives.  Program state:
\*   pc            position of the handler's main flow
\*   sid           the sessionId query parameter
\*   hasResponded  let hasResponded
\*   isCleanedUp   let isCleanedUp (revision B)
\*   timeout       let timeout: "unset" | "armed" | "fired" | "cleared"
\*   closeReg      res.on("close") (and, in B, res.on("error")) registered
\*   closeFired, errorFired   the response emitted 'close' / 'error'
\*   writes        the res.end calls made on the caller's response
\*   unsubPending  awaited redis.unsubscribe calls, by awaiting continuation
\* History:
\*   subResolved   the reply subscription was established
\*   reqPublished  the request reached the broker
\*   unsubCalls    number of redis.unsubscribe calls issued
\*   failed        broker calls of this relay call that were rejected
\*   delivered     messages handed to the reply callback; late: a response
\*                 was already written or given up when it arrived
\*   closedFirst   'close'/'error' was handled before any response
InitRelay ==
  [pc |-> "idle", sid |-> NoSession, hasResponded |-> FALSE,
   isCleanedUp |-> FALSE, timeout |-> "unset", closeReg |-> FALSE,
   closeFired |-> FALSE, errorFired |-> FALSE, writes |-> <<>>,
   unsubPending |-> {}, subResolved |-> FALSE, reqPublished |-> FALSE,
   unsubCalls |-> 0, failed |-> {}, delivered |-> <<>>,
   closedFirst |-> FALSE]

\* The SSE connection handler before the request arrives.  Program state:
\*   pc            position of the handler's main flow
\*   isCleanedUp   let isCleanedUp
\*   interval      let interval: "unset" | "set" | "cleared"
\*   timeout       let timeout: "unset" | "armed" | "fired" | "cleared"
\*   abortHandler  the abort listener is on req.signal
\*   handleMessage handleMessage is not null
\*   onclose       server.server.onclose is set
\*   resHandlers   res.on("close") and res.on("error") are registered
\*   connected     server.connect(transport) has attached the transport
\*   waitResolved  waitPromise is resolved
\*   cpc           position of the running cleanup body
\*   inServers     server is in the servers list
\*   resEnded      the connection's response is ended
\*   maxDuration   config.maxDuration
\*   timeoutMs     the delay the max-duration timer was set with
\* History:
\*   runs          number of times the cleanup body was entered
\*   ended         number of SESSION_ENDED events emitted
\*   fired         termination triggers that have fired
\*   unsubCalled, unsubFailed   the unsubscribe was issued / was rejected
InitSse ==
  [pc |-> "idle", isCleanedUp |-> FALSE, interval |-> "unset",
   timeout |-> "unset", abortHandler |-> FALSE, handleMessage |-> FALSE,
   onclose |-> FALSE, resHandlers |-> FALSE, connected |-> FALSE,
   waitResolved |-> FALSE, cpc |-> "none", inServers |-> FALSE,
   resEnded |-> FALSE, runs |-> 0, ended |-> 0, fired |-> {},
   unsubCalled |-> FALSE, unsubFailed |-> FALSE,
   maxDuration |-> NoMaxDuration, timeoutMs |-> 0]

\* A session manager before createSessionManager makes it.  Program state:
\*   created        createSessionManager has returned the manager
\*   sessionId, createdAt   manager.sessionId, manager.createdAt
\*   isActive       let isActive of the manager's closure
\*   isActiveProp   manager.isActive, the property of the returned object
\*   subscriptions  the Set subscriptions, in insertion order
\*   cpc            position of the running cleanup body
\*   todo           channelsToUnsubscribe not yet settled; the head is awaited
\*   subAwait, unsubAwait   awaited broker calls of subscribeWithTracking and
\*                  unsubscribeWithTracking, per channel
\* History:
\*   runs           number of times the cleanup body went past its guard
\*   overlapped     a cleanup call came while the body awaited the broker
\*   snapshot       the subscription set when the cleanup body began
\*   cleanupUnsubs  channels cleanup has called redis.unsubscribe for
\*   unsubFailed    channels whose unsubscribe in cleanup was rejected
\*   deletes, releases   activeSessions.delete / releaseConnection calls
\*   subCalls, unsubCalls   redis.subscribe / redis.unsubscribe calls issued
\*   threw          subscribeWithTracking threw 'session is not active'
InitMgr ==
  [created |-> FALSE, sessionId |-> NoSession, createdAt |-> 0,
   isActive |-> FALSE, isActiveProp |-> FALSE, subscriptions |-> <<>>,
   cpc |-> "none", todo |-> <<>>,
   subAwait |-> [c \in SmChannels |-> 0],
   unsubAwait |-> [c \in SmChannels |-> 0],
   runs |-> 0, overlapped |-> FALSE, snapshot |-> <<>>, cleanupUnsubs |-> <<>>,
   unsubFailed |-> {}, deletes |-> 0, releases |-> 0,
   subCalls |-> [c \in SmChannels |-> 0],
   unsubCalls |-> [c \in SmChannels |-> 0], threw |-> FALSE]

\* The session-manager module after loading:
\*   mgr                the managers
\*   activeSessions     the Map activeSessions, in insertion order
\*   activeConnections, connectionHistory   monitor
\*   broker             listeners of the redis client: <<channel, manager>>
\*   now                Date.now()
\*   calls              tracked subscribe / unsubscribe calls made so far
InitSm ==
  [mgr |-> [m \in Managers |-> InitMgr],
   activeSessions |-> <<>>,
   activeConnections |-> 0,
   connectionHistory |-> [i \in SessionIds |-> NoTime],
   broker |-> {},
   now |-> 0,
   calls |-> 0]

InitHm == [stage |-> "none", requestId |-> Undefined, status |-> "100",
           body |-> "", lost |-> FALSE, wrote |-> <<>>]

\* history of the session's message handling: the requests in the order
\* handleMessage was invoked with them, in the order handlePostMessage was
\* called for them, the replies published, the ERROR events emitted and the
\* requests published once the session was closed
InitSess == [arrived |-> <<>>, dispatched |-> <<>>, replies |-> <<>>,
             errors |-> <<>>, late |-> {}]

\* ------------------------------------------------- the request handler
\* requests the handler is serving at one time
Reqs == {"q1", "q2"}
\* url.pathname: the three configured endpoints and any other path
Paths == {"/mcp", "/sse", "/message", "/other"}
Methods == {"GET", "POST", "DELETE", "PUT", "PATCH"}
\* an Accept header: absent, or the media ranges its text holds
NoAccept == [present |-> FALSE, ranges |-> {}]
AcceptHeaders ==
  {NoAccept} \cup
  {[present |-> TRUE, ranges |-> m] :
     m \in {{}, {"text/event-stream"}, {"*/*"}, {"text/*"},
            {"application/json"}, {"application/json", "text/event-stream"}}}
\* the sessionId query parameter of a message request ("" when absent)
QuerySids == {"", OpenSession}
\* the body the unified endpoint writes for GET and DELETE
MethodNotAllowedJson ==
  [jsonrpc |-> "2.0",
   error |-> [code |-> -32000, message |-> "Method not allowed."],
   id |-> Null]
\* a body of plain text
Text(t) == [text |-> t]
\* nothing written
NoBody == [text |-> Null]
\* the configuration: whether a redisUrl is known, and disableSse
Configs == [redisUrl : BOOLEAN, disableSse : BOOLEAN]
DefaultConfig == [redisUrl |-> TRUE, disableSse |-> FALSE]

\* one request: its position, its method, path, Accept header and sessionId
\* parameter, the response written so far, the broker clients
\* initializeRedis returned to it, the McpServer its POST was handled by
\* and whether that server had been connected by then, whether it opened an
\* SSE session, subscribed a channel, published to requests:{sessionId}
InitReq == [pc |-> "idle", path |-> "-", method |-> "-", accept |-> NoAccept,
            sid |-> "", status |-> "-", body |-> NoBody,
            redis |-> 0, redisPublisher |-> 0, clientsConnected |-> FALSE,
            server |-> 0, serverConnected |-> FALSE,
            session |-> FALSE, subscribed |-> FALSE, published |-> FALSE]

\* the handler after initializeMcpApiHandler: the module's redis and
\* redisPublisher (0: undefined), the createClient calls made for each, which
\* connect() calls resolved; statelessServer (0: undefined), the McpServer
\* objects constructed, whether statelessServer.connect resolved; the
\* requests taken so far
InitHttp(cfg) ==
  [cfg |-> cfg,
   redis |-> 0, redisPublisher |-> 0,
   createClient |-> [redis |-> 0, redisPublisher |-> 0],
   connected |-> FALSE,
   statelessServer |-> 0, constructed |-> 0, serverConnected |-> FALSE,
   arrivals |-> 0,
   req |-> [q \in Reqs |-> InitReq]]

\* ------------------------------------------------ the relayed message
\* a JSON-RPC message, as text and as text with white space
PingText == "{\"method\":\"ping\"}"
PingSpaced == "{ \"method\": \"ping\" }"
\* bodies a caller may send: JSON-RPC messages, other JSON values, text
\* that is no JSON, nothing
BodyTexts ==
  {PingText, PingSpaced, "{\"a\":1}", "{ \"a\": 1 }", "\"hello\"", "\"\"",
   "null", "0", "1", "false", "true", "hello", ""}
\* req.auth of a request, the AsyncLocalStorage store of a session
NoAuth == "none"
Auths == {NoAuth, "alice", "bob"}
NoResponse == [status |-> "-", body |-> ""]
\* the relayed message: the caller's request (body text, req.auth), the
\* auth context the SSE session runs in, the serialized request on
\* requests:{sessionId}, what the engine read (body stream, req.auth), the
\* serialized reply on the reply channel, the response the caller got
InitRt == [pc |-> "idle", text |-> "", auth |-> NoAuth, sessionAuth |-> NoAuth,
           message |-> "", engineBody |-> "", engineAuth |-> NoAuth,
           reply |-> [status |-> "-", body |-> ""], out |-> NoResponse]

\* ------------------------------------------------ the wrapped handler
Scopes == {"read", "write"}
\* the requiredScopes option: left out, or a list of scopes
RequiredScopesOptions ==
  {[defined |-> FALSE, scopes |-> {}]}
  \cup {[defined |-> TRUE, scopes |-> s] : s \in {{}, {"read"}, Scopes}}
\* the Authorization header: absent, or its two words
NoHeader == [present |-> FALSE, type |-> "", token |-> ""]
AuthorizationHeaders ==
  {NoHeader} \cup
  {[present |-> TRUE, type |-> t, token |-> "tok"] :
     t \in {"Bearer", "BEARER", "Basic"}}
\* authInfo.expiresAt (seconds) left undefined
NoExpiry == -1
ExpiresAts == {NoExpiry, 0, 10, 11}
\* Date.now() (milliseconds) when the expiry is tested
Nows == {10500, 11000}
\* what verifyToken resolves to: undefined, or an AuthInfo
NoAuthInfo == [present |-> FALSE, scopes |-> {}, expiresAt |-> NoExpiry]
AuthInfos ==
  {NoAuthInfo} \cup
  {[present |-> TRUE, scopes |-> s, expiresAt |-> e] :
     s \in SUBSET Scopes, e \in ExpiresAts}
\* one call of the function withMcpAuth returns: the options, the header
\* and the bearer token handed to verifyToken, whether verifyToken threw,
\* the authInfo it gave, Date.now(), whether handler was invoked and with
\* which req.auth and auth context, the response's status
InitWa == [pc |-> "idle", required |-> FALSE,
           requiredScopes |-> [defined |-> FALSE, scopes |-> {}],
           authorization |-> NoHeader, bearerToken |-> Undefined,
           threw |-> FALSE, authInfo |-> NoAuthInfo, now |-> 0,
           invoked |-> FALSE, reqAuth |-> NoAuthInfo, store |-> NoAuthInfo,
           status |-> "-"]

\* --------------------------------------------------------------- channels
\* url.searchParams.get("sessionId") || ""
SessionIdParam(q) == IF q \in {Null, ""} THEN "" ELSE q

\* one request id shared by every relay call
RequestIdShared(r) == "rid"

\* crypto.randomUUID(): a fresh id for every relay call
RequestId(r) == r

RequestChannel(sid) == <<"requests", sid>>

ReplyChannel(sid, rid) == <<"responses", sid, rid>>

SessionListener == <<RequestChannel(OpenSession), "session">>

\* ---------------------------------------------------------------- payloads
\* JSON.stringify(serializedRequest)
RequestMsg(r, sid) ==
  [kind |-> "request", requestId |-> RequestId(r), status |-> Undefined,
   body |-> r]

\* JSON.stringify({status, body})
ReplyMsg(st, b) ==
  [kind |-> "reply", requestId |-> Undefined, status |-> st, body |-> b]

\* payloads a foreign publisher may send: text that is not JSON, the JSON
\* text null, the JSON text {} and a well-formed reply
ForeignPayloads ==
  { [kind |-> k, requestId |-> Undefined, status |-> Undefined,
     body |-> Undefined] : k \in {"garbage", "null", "empty"} }
  \cup {ReplyMsg("200", "foreign")}

\* JSON.parse(message) followed by the reads response.status, response.body:
\* throws for text that is not JSON and for null (property read of null)
ParseThrows(p) == p.kind \in {"garbage", "null"}

ParsedStatus(p) == IF p.kind = "reply" THEN p.status ELSE Undefined

ParsedBody(p) == IF p.kind = "reply" THEN p.body ELSE Undefined

\* redisPublisher.publish reaching the broker: one copy per listener that is
\* registered on the channel at that moment
Enqueue(q, chan, p, L) ==
  LET owners == {l \in L : l[1] = chan}
      Copies == {[to |-> l[2], chan |-> chan, payload |-> p] : l \in owners}
      RECURSIVE Flat(_)
      Flat(S) == IF S = {} THEN <<>>
                 ELSE LET x == CHOOSE y \in S : TRUE
                      IN <<x>> \o Flat(S \ {x})
  IN q \o Flat(Copies)

\* redis.unsubscribe(channel): every listener of the channel is removed
RemoveChannel(L, chan) == {l \in L : l[1] # chan}

RemoveAt(q, i) == SubSeq(q, 1, i - 1) \o SubSeq(q, i + 1, Len(q))

\* messages of one channel are delivered in publication order
Deliverable(i) ==
  /\ i \in 1..Len(inflight)
  /\ \A j \in 1..(i - 1) : inflight[j].chan # inflight[i].chan

\* ------------------------------------------------- relay call: functions
Write(st, b, via) == [status |-> st, body |-> b, via |-> via]

\* one reply channel per session
MyReplyChannelOfSession(r) == <<"responses", relay[r].sid>>

MyReplyChannel(r) == ReplyChannel(relay[r].sid, RequestId(r))

\* cleanup that marks the call cleaned up but issues no unsubscribe
CleanupBNoUnsub(s, tag) ==
  IF s.isCleanedUp THEN s
  ELSE [s EXCEPT !.isCleanedUp = TRUE,
                 !.timeout = IF @ = "armed" THEN "cleared" ELSE @]

\* revision B, const cleanup = async () => {...}: the part before the await;
\* tag names the continuation that awaits the unsubscribe
CleanupB(s, tag) ==
  IF s.isCleanedUp THEN s
  ELSE [s EXCEPT !.isCleanedUp = TRUE,
                 !.timeout = IF @ = "armed" THEN "cleared" ELSE @,
                 !.unsubPending = @ \cup {tag},
                 !.unsubCalls = @ + 1]

\* sendResponse without the hasResponded guard
SendResponseAUnguarded(s, st, b, via) ==
  [s EXCEPT !.hasResponded = TRUE,
            !.timeout = IF @ = "armed" THEN "cleared" ELSE @,
            !.writes = Append(@, Write(st, b, via))]

\* revision A, const sendResponse = (status, body) => {...}
SendResponseA(s, st, b, via) ==
  IF s.hasResponded THEN s
  ELSE [s EXCEPT !.hasResponded = TRUE,
                 !.timeout = IF @ = "armed" THEN "cleared" ELSE @,
                 !.writes = Append(@, Write(st, b, via))]

\* revision B, const sendResponse = async (status, body) => {...}
SendResponseB(s, st, b, via) ==
  IF s.hasResponded THEN s
  ELSE CleanupB([s EXCEPT !.hasResponded = TRUE,
                          !.writes = Append(@, Write(st, b, via))],
                "cleanup")

SendResponse(s, st, b, via) ==
  IF version = "A" THEN SendResponseA(s, st, b, via)
  ELSE SendResponseB(s, st, b, via)

\* a reply callback that answers 200 whatever status the reply carries
HandleResponseStatus200(s, p, via) ==
  IF ParseThrows(p)
  THEN SendResponse(s, "500", "Internal server error", via)
  ELSE SendResponse(s, "200", ParsedBody(p), via)

\* the reply callback: (message) => {...} in A, handleResponse in B
HandleResponse(s, p, via) ==
  IF ParseThrows(p)
  THEN SendResponse(s, "500", "Internal server error", via)
  ELSE SendResponse(s, ParsedStatus(p), ParsedBody(p), via)

\* revision B, catch (error) {...} after `await cleanup()` has returned
CatchEnd(s) ==
  [s EXCEPT !.pc = "caught",
            !.writes = IF s.hasResponded THEN @
                       ELSE Append(@, Write("500", "Internal server error",
                                            <<"catch">>))]

\* revision B, catch (error) {...}: logger.error, then `await cleanup()`
CatchB(s) ==
  IF s.isCleanedUp THEN CatchEnd(s)
  ELSE [CleanupB(s, "catch") EXCEPT !.pc = "catching"]

\* what a rejected subscribe or publish does to the handler
Rejected(s, call) ==
  LET f == [s EXCEPT !.failed = @ \cup {call}]
  IN IF version = "A" THEN [f EXCEPT !.pc = "thrown"] ELSE CatchB(f)

\* ---------------------------------------------------- relay call: steps
\* the request arrives with the sessionId check skipped
StartRelayNoCheck(r, q) ==
  /\ relay[r].pc = "idle"
  /\ relay' = [relay EXCEPT ![r].pc = "subscribing",
                            ![r].sid = SessionIdParam(q)]
  /\ UNCHANGED <<version, listeners, inflight, foreign, hm, sse, sess, sm, http, rt, wa>>

\* the request arrives with query value q for sessionId: without a session
\* id the answer is 400 and the handler returns; otherwise requestId is
\* made and redis.subscribe is called
StartRelay(r, q) ==
  /\ relay[r].pc = "idle"
  /\ relay' = [relay EXCEPT ![r] =
       IF SessionIdParam(q) = ""
       THEN [@ EXCEPT !.pc = "refused", !.sid = "",
                      !.writes = Append(@, Write("400", "No sessionId provided",
                                                 <<"sessionId">>))]
       ELSE [@ EXCEPT !.pc = "subscribing", !.sid = SessionIdParam(q)]]
  /\ UNCHANGED <<version, listeners, inflight, foreign, hm, sse, sess, sm, http, rt, wa>>

\* the subscribe is not awaited: publish is called with no listener yet
SubscribeNotAwaited(r) ==
  /\ relay[r].pc = "subscribing"
  /\ relay' = [relay EXCEPT ![r].pc = "publishing"]
  /\ UNCHANGED <<version, listeners, inflight, foreign, hm, sse, sess, sm, http, rt, wa>>

\* await redis.subscribe(...) resolves; redisPublisher.publish is called
SubscribeResolve(r) ==
  /\ relay[r].pc = "subscribing"
  /\ listeners' = listeners \cup {<<MyReplyChannel(r), r>>}
  /\ relay' = [relay EXCEPT ![r].pc = "publishing",
                            ![r].subResolved = TRUE]
  /\ UNCHANGED <<version, inflight, foreign, hm, sse, sess, sm, http, rt, wa>>

SubscribeReject(r) ==
  /\ relay[r].pc = "subscribing"
  /\ relay' = [relay EXCEPT ![r] = Rejected(@, "subscribe")]
  /\ UNCHANGED <<version, listeners, inflight, foreign, hm, sse, sess, sm, http, rt, wa>>

\* the PUBLISH reaches the broker
PublishSend(r) ==
  /\ relay[r].pc = "publishing"
  /\ inflight' = Enqueue(inflight, RequestChannel(relay[r].sid),
                         RequestMsg(r, relay[r].sid), listeners)
  /\ relay' = [relay EXCEPT ![r].pc = "published",
                            ![r].reqPublished = TRUE]
  /\ UNCHANGED <<version, listeners, foreign, hm, sse, sess, sm, http, rt, wa>>

\* await redisPublisher.publish(...) resolves; the timer is set and the
\* 'close' (and 'error') handlers are registered
PublishResolve(r) ==
  /\ relay[r].pc = "published"
  /\ relay' = [relay EXCEPT ![r].pc = "returned",
                            ![r].timeout = "armed",
                            ![r].closeReg = TRUE]
  /\ UNCHANGED <<version, listeners, inflight, foreign, hm, sse, sess, sm, http, rt, wa>>

PublishReject(r) ==
  /\ relay[r].pc = "publishing"
  /\ relay' = [relay EXCEPT ![r] = Rejected(@, "publish")]
  /\ UNCHANGED <<version, listeners, inflight, foreign, hm, sse, sess, sm, http, rt, wa>>

\* the setTimeout callback
TimeoutFire(r) ==
  /\ relay[r].timeout = "armed"
  /\ LET s == [relay[r] EXCEPT !.timeout = "fired"]
     IN relay' = [relay EXCEPT ![r] =
          IF version = "A"
          THEN [s EXCEPT !.unsubPending = @ \cup {"timeout"},
                         !.unsubCalls = @ + 1]
          ELSE SendResponseB(s, "408", "Request timed out", <<"timeout">>)]
  /\ UNCHANGED <<version, listeners, inflight, foreign, hm, sse, sess, sm, http, rt, wa>>

\* what runs after an awaited redis.unsubscribe has settled
AfterUnsub(s, tag, ok) ==
  LET t == [s EXCEPT !.unsubPending = @ \ {tag},
                     !.failed = IF ok THEN @ ELSE @ \cup {"unsubscribe"}]
  IN CASE tag = "timeout" ->
            IF ok THEN SendResponseA(t, "408", "Request timed out",
                                     <<"timeout">>)
            ELSE t
       [] tag = "catch" -> CatchEnd(t)
       [] OTHER -> t

UnsubResolve(r, tag) ==
  /\ tag \in relay[r].unsubPending
  /\ listeners' = RemoveChannel(listeners, MyReplyChannel(r))
  /\ relay' = [relay EXCEPT ![r] = AfterUnsub(@, tag, TRUE)]
  /\ UNCHANGED <<version, inflight, foreign, hm, sse, sess, sm, http, rt, wa>>

UnsubReject(r, tag) ==
  /\ tag \in relay[r].unsubPending
  /\ relay' = [relay EXCEPT ![r] = AfterUnsub(@, tag, FALSE)]
  /\ UNCHANGED <<version, listeners, inflight, foreign, hm, sse, sess, sm, http, rt, wa>>

\* a 'close' handler that does not set hasResponded
OnCloseANoFlag(s) ==
  [s EXCEPT !.closedFirst = ~s.hasResponded,
            !.timeout = IF @ = "armed" THEN "cleared" ELSE @,
            !.unsubPending = @ \cup {"close"},
            !.unsubCalls = @ + 1]

\* res.on("close", ...) in A
OnCloseA(s) ==
  [s EXCEPT !.closedFirst = ~s.hasResponded,
            !.hasResponded = TRUE,
            !.timeout = IF @ = "armed" THEN "cleared" ELSE @,
            !.unsubPending = @ \cup {"close"},
            !.unsubCalls = @ + 1]

\* res.on("close", ...) and res.on("error", ...) in B
OnCloseB(s) ==
  IF s.hasResponded THEN s
  ELSE CleanupB([s EXCEPT !.hasResponded = TRUE, !.closedFirst = TRUE],
                "cleanup")

\* the caller's response emits 'close'
ResClose(r) ==
  /\ relay[r].closeReg
  /\ ~relay[r].closeFired
  /\ LET s == [relay[r] EXCEPT !.closeFired = TRUE]
     IN relay' = [relay EXCEPT ![r] =
          IF version = "A" THEN OnCloseA(s) ELSE OnCloseB(s)]
  /\ UNCHANGED <<version, listeners, inflight, foreign, hm, sse, sess, sm, http, rt, wa>>

\* the caller's response emits 'error' (only B listens)
ResError(r) ==
  /\ version = "B"
  /\ relay[r].closeReg
  /\ ~relay[r].errorFired
  /\ relay' = [relay EXCEPT ![r] =
                 OnCloseB([@ EXCEPT !.errorFired = TRUE])]
  /\ UNCHANGED <<version, listeners, inflight, foreign, hm, sse, sess, sm, http, rt, wa>>

\* a message on a reply channel reaches the listener of relay call r
DeliverReply(i) ==
  /\ Deliverable(i)
  /\ inflight[i].to \in Relays
  /\ LET m == inflight[i]
         r == m.to
     IN /\ inflight' = RemoveAt(inflight, i)
        /\ relay' = IF <<m.chan, r>> \in listeners
                    THEN [relay EXCEPT ![r] =
                            HandleResponse(
                              [@ EXCEPT !.delivered = Append(@,
                                 [payload |-> m.payload, chan |-> m.chan,
                                  late |-> relay[r].hasResponded
                                           \/ relay[r].writes # <<>>])],
                              m.payload, m.chan)]
                    ELSE relay
  /\ UNCHANGED <<version, listeners, foreign, hm, sse, sess, sm, http, rt, wa>>

\* ------------------------------------------------------- session side
\* the hand-over with later messages overtaking earlier ones
DispatchOvertaking(d, k) == <<k>> \o d

\* handleMessage runs from its invocation to the transport.handlePostMessage
\* call without awaiting: the message is handed over before the listener
\* returns to the broker client
Dispatch(d, k) == Append(d, k)

\* a message on requests:{sessionId} reaches handleMessage, which parses it,
\* builds the synthetic request/response and calls handlePostMessage
DeliverRequest(i) ==
  /\ Deliverable(i)
  /\ inflight[i].to = "session"
  /\ LET m == inflight[i]
         k == m.payload.body
         on == <<m.chan, "session">> \in listeners
     IN /\ inflight' = RemoveAt(inflight, i)
        /\ hm' = IF on
                 THEN [hm EXCEPT ![k].stage = "engine",
                                 ![k].requestId = m.payload.requestId]
                 ELSE hm
        /\ sess' = IF on
                   THEN [sess EXCEPT !.arrived = Append(@, k),
                                     !.dispatched = Dispatch(@, k)]
                   ELSE sess
  /\ UNCHANGED <<version, relay, listeners, foreign, sse, sm, http, rt, wa>>

\* the engine's writeHead not captured: status keeps its initial value
EngineReturnUncaptured(k, st, b) ==
  /\ hm[k].stage = "engine"
  /\ hm' = [hm EXCEPT ![k].stage = "publish", ![k].body = b,
                      ![k].wrote = <<st, b>>]
  /\ UNCHANGED <<version, relay, listeners, inflight, foreign, sse, sess, sm, http, rt, wa>>

\* transport.handlePostMessage returns after writeHead(st) and end(b); the
\* overridden writeHead and end keep st and b in status and body
EngineReturn(k, st, b) ==
  /\ hm[k].stage = "engine"
  /\ hm' = [hm EXCEPT ![k].stage = "publish", ![k].status = st,
                      ![k].body = b, ![k].wrote = <<st, b>>]
  /\ UNCHANGED <<version, relay, listeners, inflight, foreign, sse, sess, sm, http, rt, wa>>

\* the catch block swallowing the error: the reply is published
EngineThrowSwallowed(k) ==
  /\ hm[k].stage = "engine"
  /\ hm' = [hm EXCEPT ![k].stage = "publish"]
  /\ sess' = [sess EXCEPT !.errors = Append(@, k)]
  /\ UNCHANGED <<version, relay, listeners, inflight, foreign, sse, sm, http, rt, wa>>

\* transport.handlePostMessage throws: ERROR event, re-thrown, no reply
EngineThrow(k) ==
  /\ hm[k].stage = "engine"
  /\ hm' = [hm EXCEPT ![k].stage = "threw"]
  /\ sess' = [sess EXCEPT !.errors = Append(@, k)]
  /\ UNCHANGED <<version, relay, listeners, inflight, foreign, sse, sm, http, rt, wa>>

\* redisPublisher.publish(`responses:${sessionId}:${request.requestId}`, ...)
ReplyPublish(k) ==
  /\ hm[k].stage = "publish"
  /\ LET chan == ReplyChannel(OpenSession, hm[k].requestId)
         p == ReplyMsg(hm[k].status, hm[k].body)
     IN /\ inflight' = Enqueue(inflight, chan, p, listeners)
        /\ hm' = [hm EXCEPT ![k].stage = "done",
                            ![k].lost = ~\E l \in listeners : l[1] = chan]
        /\ sess' = [sess EXCEPT !.replies =
                      Append(@, [for |-> k, chan |-> chan, payload |-> p])]
  /\ UNCHANGED <<version, relay, listeners, foreign, sse, sm, http, rt, wa>>

\* some other publisher puts a message on the reply channel of a relay call
ForeignPublish(r, p) ==
  /\ foreign < MaxForeign
  /\ relay[r].pc # "idle"
  /\ foreign' = foreign + 1
  /\ inflight' = Enqueue(inflight, MyReplyChannel(r), p, listeners)
  /\ UNCHANGED <<version, relay, listeners, hm, sse, sess, sm, http, rt, wa>>

\* ------------------------------------------------------- specification
InitR ==
  /\ version \in Versions
  /\ relay = [r \in Relays |-> InitRelay]
  /\ listeners = {SessionListener}
  /\ inflight = <<>>
  /\ foreign = 0
  /\ hm = [r \in Relays |-> InitHm]
  /\ sse = InitSse
  /\ sess = InitSess
  /\ sm = InitSm
  /\ http = InitHttp(DefaultConfig)
  /\ rt = InitRt
  /\ wa = InitWa

\* steps of a relay call once started, the broker calls succeeding
RelayStep(r) ==
  \/ SubscribeResolve(r)
  \/ PublishSend(r)
  \/ PublishResolve(r)
  \/ TimeoutFire(r)
  \/ \E tag \in {"timeout", "close", "cleanup", "catch"} : UnsubResolve(r, tag)
  \/ ResClose(r)
  \/ ResError(r)

\* a broker call of a relay call is rejected
FaultStep(r) ==
  \/ SubscribeReject(r)
  \/ PublishReject(r)
  \/ \E tag \in {"timeout", "close", "cleanup", "catch"} : UnsubReject(r, tag)

BrokerStep ==
  \/ \E i \in 1..Len(inflight) : DeliverReply(i)
  \/ \E i \in 1..Len(inflight) : DeliverRequest(i)

SessionStep ==
  \/ \E k \in Relays, st \in EngineStatuses : EngineReturn(k, st, k)
  \/ \E k \in Relays : EngineThrow(k)
  \/ \E k \in Relays : ReplyPublish(k)

\* one relay call, with broker failures and a foreign publisher
Solo == {"r1"}

NextR ==
  \/ \E r \in Solo, q \in QueryValues : StartRelay(r, q)
  \/ \E r \in Relays : RelayStep(r)
  \/ \E r \in Relays : FaultStep(r)
  \/ BrokerStep
  \/ SessionStep
  \/ \E r \in Relays, p \in ForeignPayloads : ForeignPublish(r, p)

SpecRelay == InitR /\ [][NextR]_vars

\* several relay calls in flight at once
NextC ==
  \/ \E r \in Relays, sid \in SessionIds : StartRelay(r, sid)
  \/ \E r \in Relays : RelayStep(r)
  \/ BrokerStep
  \/ SessionStep

SpecConc == InitR /\ [][NextC]_vars

\* several relay calls of one session in flight at once; one of them meets
\* broker failures and a foreign publisher on its reply channel; the
\* engine's replies are left out
NextF ==
  \/ \E r \in Relays : StartRelay(r, OpenSession)
  \/ \E r \in Relays : RelayStep(r)
  \/ \E r \in Solo : FaultStep(r)
  \/ BrokerStep
  \/ \E r \in Solo, p \in ForeignPayloads : ForeignPublish(r, p)

SpecFrame == InitR /\ [][NextF]_vars

\* ---------------------------------------------------- SSE connection
\* cleanup without the isCleanedUp guard
CleanupEnterUnguarded(s) ==
  [s EXCEPT !.isCleanedUp = TRUE,
            !.runs = @ + 1,
            !.timeout = IF @ = "armed" THEN "cleared" ELSE @,
            !.interval = IF @ = "set" THEN "cleared" ELSE @,
            !.abortHandler = FALSE,
            !.unsubCalled = s.handleMessage,
            !.cpc = IF s.handleMessage THEN "unsub" ELSE "closeServer"]

\* const cleanup = async (reason) => {...}: the guard and the part before
\* the first await
CleanupEnter(s) ==
  IF s.isCleanedUp THEN s
  ELSE [s EXCEPT !.isCleanedUp = TRUE,
                 !.runs = @ + 1,
                 !.timeout = IF @ = "armed" THEN "cleared" ELSE @,
                 !.interval = IF @ = "set" THEN "cleared" ELSE @,
                 !.abortHandler = FALSE,
                 !.unsubCalled = s.handleMessage,
                 !.cpc = IF s.handleMessage THEN "unsub" ELSE "closeServer"]

\* a cleanup tail that leaves the server in the servers list
CleanupTailKeepsServer(s) ==
  [s EXCEPT !.cpc = "done",
            !.ended = @ + 1,
            !.resEnded = TRUE,
            !.pc = IF @ = "cleaning" THEN "returned"
                   ELSE IF @ = "catching" THEN "thrown" ELSE @]

\* cleanup, after the closes: servers.filter, serverMetadata.delete,
\* eventRes.endSession, logs = [], res.end unless headers were sent
CleanupTail(s) ==
  [s EXCEPT !.cpc = "done",
            !.inServers = FALSE,
            !.ended = @ + 1,
            !.resEnded = TRUE,
            !.pc = IF @ = "cleaning" THEN "returned"
                   ELSE IF @ = "catching" THEN "thrown" ELSE @]

\* `await cleanup(...)` in the main flow (kind "cleaning") or in the catch
\* block (kind "catching"): a call that finds isCleanedUp set returns at once
AwaitCleanup(s, kind) ==
  IF s.isCleanedUp
  THEN [s EXCEPT !.pc = IF kind = "cleaning" THEN "returned" ELSE "thrown"]
  ELSE [CleanupEnter(s) EXCEPT !.pc = kind]

\* revision A, async function cleanup(): clearTimeout, clearInterval and the
\* redis.unsubscribe call
CleanupA(s) ==
  [s EXCEPT !.pc = "cleaning",
            !.runs = @ + 1,
            !.timeout = IF @ = "armed" THEN "cleared" ELSE @,
            !.interval = IF @ = "set" THEN "cleared" ELSE @,
            !.unsubCalled = TRUE,
            !.cpc = "unsub"]

\* the delay with the default ignored
TimerDelayNoDefault(md) == md.seconds * 1000

\* (maxDuration ?? 60) * 1000
TimerDelay(md) == (IF md.given THEN md.seconds ELSE 60) * 1000

SseVars == <<version, relay, inflight, foreign, hm, sess, sm, http, rt, wa>>

\* GET on the connection endpoint: initializeRedis, transport, eventRes,
\* new McpServer; initializeServer(server) is called
StartSse ==
  /\ sse.pc = "idle"
  /\ \E md \in MaxDurations :
       sse' = [sse EXCEPT !.pc = "initializing", !.maxDuration = md]
  /\ UNCHANGED <<SseVars, listeners>>

\* initializeServer resolved: servers.push, onclose, handleMessage, interval;
\* redis.subscribe is called
InitializeDone ==
  /\ sse.pc = "initializing"
  /\ sse' = [sse EXCEPT !.pc = "subscribing", !.inServers = TRUE,
                        !.onclose = TRUE, !.handleMessage = TRUE,
                        !.interval = "set"]
  /\ UNCHANGED <<SseVars, listeners>>

\* the subscribe resolved: timer, abort listener, res handlers (revision
\* B); server.connect(transport) is called
SubscribeResolveS ==
  /\ sse.pc = "subscribing"
  /\ listeners' = listeners \cup {SessionListener}
  /\ sse' = [sse EXCEPT !.pc = "connecting", !.timeout = "armed",
                        !.timeoutMs = TimerDelay(sse.maxDuration),
                        !.abortHandler = TRUE,
                        !.resHandlers = (version = "B"),
                        !.connected = TRUE]
  /\ UNCHANGED SseVars

\* server.connect resolved: the handler awaits waitPromise
ConnectResolve ==
  /\ sse.pc = "connecting"
  /\ sse' = [sse EXCEPT !.pc = "waiting"]
  /\ UNCHANGED <<SseVars, listeners>>

\* initializeServer, redis.subscribe or server.connect throws: catch block
\* (revision B); revision A has none and the handler's promise is rejected
SetupError ==
  /\ sse.pc \in {"initializing", "subscribing", "connecting"}
  /\ sse' = IF version = "A"
            THEN [sse EXCEPT !.fired = @ \cup {"setup error"},
                             !.pc = "thrown"]
            ELSE AwaitCleanup([sse EXCEPT !.fired = @ \cup {"setup error"}],
                              "catching")
  /\ UNCHANGED <<SseVars, listeners>>

\* waitPromise is resolved: cleanup is awaited
MainWake ==
  /\ sse.pc = "waiting"
  /\ sse.waitResolved
  /\ sse' = IF version = "A" THEN CleanupA(sse)
            ELSE AwaitCleanup(sse, "cleaning")
  /\ UNCHANGED <<SseVars, listeners>>

\* the max-duration timer fires: resolve("max duration reached")
MaxDuration ==
  /\ sse.timeout = "armed"
  /\ sse' = [sse EXCEPT !.timeout = "fired", !.waitResolved = TRUE,
                        !.fired = @ \cup {"timeout"}]
  /\ UNCHANGED <<SseVars, listeners>>

\* req.signal aborts: abortHandler resolves waitPromise
ClientAbort ==
  /\ sse.abortHandler
  /\ "abort" \notin sse.fired
  /\ sse' = [sse EXCEPT !.waitResolved = TRUE, !.fired = @ \cup {"abort"}]
  /\ UNCHANGED <<SseVars, listeners>>

\* server.server.onclose is called by the engine: revision A ends the
\* session's events and drops the server, revision B runs cleanup
ServerClose ==
  /\ sse.onclose
  /\ sse.connected
  /\ "server close" \notin sse.fired
  /\ sse' = IF version = "A"
            THEN [sse EXCEPT !.fired = @ \cup {"server close"},
                             !.ended = @ + 1, !.inServers = FALSE]
            ELSE CleanupEnter([sse EXCEPT !.fired = @ \cup {"server close"}])
  /\ UNCHANGED <<SseVars, listeners>>

\* the connection's response emits 'close' or 'error'
ResEvent(ev) ==
  /\ sse.resHandlers
  /\ ev \notin sse.fired
  /\ sse' = CleanupEnter([sse EXCEPT !.fired = @ \cup {ev}])
  /\ UNCHANGED <<SseVars, listeners>>

\* cleanup whose unsubscribe leaves the listener on the channel
CleanupUnsubKeepsListener(ok) ==
  /\ sse.cpc = "unsub"
  /\ sse' = IF version = "A"
            THEN [sse EXCEPT !.cpc = "done", !.unsubFailed = ~ok,
                             !.resEnded = ok,
                             !.pc = IF ok THEN "returned" ELSE "thrown"]
            ELSE [sse EXCEPT !.cpc = "closeServer", !.unsubFailed = ~ok]
  /\ UNCHANGED <<SseVars, listeners>>

\* cleanup: the awaited redis.unsubscribe(`requests:${sessionId}`,
\* handleMessage) settles.  Revision B catches and logs a rejection and goes
\* on; revision A ends the response after it, and a rejection rejects
\* cleanup and the handler's promise
CleanupUnsub(ok) ==
  /\ sse.cpc = "unsub"
  /\ listeners' = IF ok THEN listeners \ {SessionListener} ELSE listeners
  /\ sse' = IF version = "A"
            THEN [sse EXCEPT !.cpc = "done", !.unsubFailed = ~ok,
                             !.resEnded = ok,
                             !.pc = IF ok THEN "returned" ELSE "thrown"]
            ELSE [sse EXCEPT !.cpc = "closeServer", !.unsubFailed = ~ok]
  /\ UNCHANGED SseVars

\* cleanup: server.server.close() settles; closing a connected server ends
\* the SSE response and calls onclose, which re-enters cleanup
CleanupServerClosed ==
  /\ sse.cpc = "closeServer"
  /\ sse' = [(IF sse.connected THEN CleanupEnter(sse) ELSE sse)
                EXCEPT !.cpc = "closeTransport",
                       !.resEnded = @ \/ sse.connected]
  /\ UNCHANGED <<SseVars, listeners>>

\* cleanup: transport.close() settles (it calls onclose again); the rest of
\* cleanup runs
CleanupTransportClosed ==
  /\ sse.cpc = "closeTransport"
  /\ sse' = CleanupTail(IF sse.connected THEN CleanupEnter(sse) ELSE sse)
  /\ UNCHANGED <<SseVars, listeners>>

\* cleanup: server.server.close() or transport.close() throws; the error is
\* caught and the rest of cleanup runs
CleanupCloseThrows ==
  /\ sse.cpc \in {"closeServer", "closeTransport"}
  /\ sse' = CleanupTail(sse)
  /\ UNCHANGED <<SseVars, listeners>>

InitS ==
  /\ version = "B"
  /\ relay = [r \in Relays |-> InitRelay]
  /\ listeners = {}
  /\ inflight = <<>>
  /\ foreign = 0
  /\ hm = [r \in Relays |-> InitHm]
  /\ sse = InitSse
  /\ sess = InitSess
  /\ sm = InitSm
  /\ http = InitHttp(DefaultConfig)
  /\ rt = InitRt
  /\ wa = InitWa

CleanupProgress ==
  \/ \E ok \in BOOLEAN : CleanupUnsub(ok)
  \/ CleanupServerClosed
  \/ CleanupTransportClosed
  \/ CleanupCloseThrows

NextS ==
  \/ StartSse
  \/ InitializeDone
  \/ SubscribeResolveS
  \/ ConnectResolve
  \/ SetupError
  \/ MainWake
  \/ MaxDuration
  \/ ClientAbort
  \/ ServerClose
  \/ \E ev \in {"close", "error"} : ResEvent(ev)
  \/ CleanupProgress

SpecSse == InitS /\ [][NextS]_vars

\* promises settle and a runnable continuation runs
SpecSseFair ==
  /\ SpecSse
  /\ WF_vars(CleanupProgress)
  /\ WF_vars(MainWake)
  /\ WF_vars(ConnectResolve \/ SetupError)

\* ------------------------------------------ SSE session with messages
\* the session is closed: its request channel is unsubscribed and the
\* connection's response is ended
SessionClosed ==
  /\ sse.unsubCalled
  /\ SessionListener \notin listeners
  /\ sse.resEnded

\* a message request for the session gets as far as its publish on
\* requests:{sessionId}; the reply side of the relay call is left out
RelayPublish(k) ==
  /\ relay[k].pc = "idle"
  /\ relay' = [relay EXCEPT ![k].pc = "published", ![k].sid = OpenSession,
                            ![k].reqPublished = TRUE]
  /\ inflight' = Enqueue(inflight, RequestChannel(OpenSession),
                         RequestMsg(k, OpenSession), listeners)
  /\ sess' = [sess EXCEPT !.late = IF SessionClosed THEN @ \cup {k} ELSE @]
  /\ UNCHANGED <<version, listeners, foreign, hm, sse, sm, http, rt, wa>>

InitM ==
  /\ version \in Versions
  /\ relay = [r \in Relays |-> InitRelay]
  /\ listeners = {}
  /\ inflight = <<>>
  /\ foreign = 0
  /\ hm = [r \in Relays |-> InitHm]
  /\ sse = InitSse
  /\ sess = InitSess
  /\ sm = InitSm
  /\ http = InitHttp(DefaultConfig)
  /\ rt = InitRt
  /\ wa = InitWa

MessageStep(k) ==
  \/ RelayPublish(k)
  \/ \E st \in EngineStatuses : EngineReturn(k, st, k)
  \/ EngineThrow(k)
  \/ ReplyPublish(k)

\* one session and the messages relayed to it
NextM ==
  \/ NextS
  \/ \E k \in Relays : MessageStep(k)
  \/ \E i \in 1..Len(inflight) : DeliverRequest(i)

SpecSess == InitM /\ [][NextM]_vars

\* the continuation of handleMessage after the engine returned runs
SpecSessFair ==
  /\ SpecSess
  /\ \A k \in Relays : WF_vars(ReplyPublish(k))

\* one session and one message
NextM1 ==
  \/ NextS
  \/ \E k \in Solo : MessageStep(k)
  \/ \E i \in 1..Len(inflight) : DeliverRequest(i)

SpecSess1 == InitM /\ [][NextM1]_vars

SpecSess1Fair ==
  /\ SpecSess1
  /\ WF_vars(CleanupProgress)
  /\ WF_vars(MainWake)

\* ------------------------------------------------------ session manager
OtherVars == <<version, relay, listeners, inflight, foreign, hm, sse, sess, http, rt, wa>>

\* Set.add, Set.delete on a Set kept in insertion order
SetAdd(q, c) ==
  IF \E n \in 1..Len(q) : q[n] = c THEN q ELSE Append(q, c)
SetDelete(q, c) == SelectSeq(q, LAMBDA x : x # c)

\* Map.set, Map.delete on activeSessions
MapSet(q, id, m) ==
  IF \E n \in 1..Len(q) : q[n].id = id
  THEN [n \in 1..Len(q) |->
          IF q[n].id = id THEN [id |-> id, mgr |-> m] ELSE q[n]]
  ELSE Append(q, [id |-> id, mgr |-> m])
MapDelete(q, id) == SelectSeq(q, LAMBDA e : e.id # id)

\* redis.unsubscribe(channel): every listener of the channel is removed
BrokerUnsubscribe(b, c) == {l \in b : l[1] # c}

\* trackConnection(sessionId)
TrackConnection(s, id) ==
  LET h == [s.connectionHistory EXCEPT ![id] = s.now]
  IN [s EXCEPT !.activeConnections = @ + 1,
               !.connectionHistory =
                  [i \in SessionIds |->
                     IF h[i] # NoTime /\ h[i] < s.now - HourMs
                     THEN NoTime ELSE h[i]]]

\* releaseConnection(sessionId)
ReleaseConnection(s, id) ==
  [s EXCEPT !.activeConnections = IF @ - 1 > 0 THEN @ - 1 ELSE 0,
            !.connectionHistory[id] = NoTime]

\* cleanup, after the loop: subscriptions.clear(), activeSessions.delete,
\* releaseConnection
CleanupFinish(s, m) ==
  ReleaseConnection(
    [s EXCEPT !.mgr[m].subscriptions = <<>>,
              !.mgr[m].cpc = "done",
              !.mgr[m].todo = <<>>,
              !.mgr[m].deletes = @ + 1,
              !.mgr[m].releases = @ + 1,
              !.activeSessions = MapDelete(@, s.mgr[m].sessionId)],
    s.mgr[m].sessionId)

\* cleanup, from the isActive flag on: the flag is cleared, the subscription
\* set is copied and the first redis.unsubscribe is called; with nothing to
\* unsubscribe the body runs to its end
CleanupBody(s, m) ==
  LET snap == s.mgr[m].subscriptions
      t == [s EXCEPT !.mgr[m].isActive = FALSE,
                     !.mgr[m].runs = @ + 1,
                     !.mgr[m].snapshot = snap]
  IN IF snap = <<>> THEN CleanupFinish(t, m)
     ELSE [t EXCEPT !.mgr[m].cpc = "unsub",
                    !.mgr[m].todo = snap,
                    !.mgr[m].cleanupUnsubs = Append(@, Head(snap)),
                    !.mgr[m].unsubCalls[Head(snap)] = @ + 1]

\* cleanup without its isActive guard
CleanupCallUnguarded(s, m) == CleanupBody(s, m)

\* const cleanup = async () => {...}, up to its first await: a call that
\* finds isActive cleared returns
CleanupCall(s, m) ==
  IF ~s.mgr[m].isActive
  THEN [s EXCEPT !.mgr[m].overlapped = @ \/ s.mgr[m].cpc = "unsub"]
  ELSE CleanupBody(s, m)

\* session.cleanup() called for each session of a list, in order
RECURSIVE CleanupEach(_, _)
CleanupEach(s, ms) ==
  IF ms = <<>> THEN s
  ELSE CleanupEach(CleanupCall(s, Head(ms)), Tail(ms))

\* the values of activeSessions, in order
SessionValues(s) == [n \in 1..Len(s.activeSessions) |-> s.activeSessions[n].mgr]

\* createSessionManager(sessionId, redis): the manager object takes a copy
\* of isActive; activeSessions.set, trackConnection
CreateSessionManager(m, id) ==
  /\ ~sm.mgr[m].created
  /\ sm' = TrackConnection(
             [sm EXCEPT !.mgr[m].created = TRUE,
                        !.mgr[m].sessionId = id,
                        !.mgr[m].createdAt = sm.now,
                        !.mgr[m].isActive = TRUE,
                        !.mgr[m].isActiveProp = TRUE,
                        !.activeSessions = MapSet(@, id, m)],
             id)
  /\ UNCHANGED OtherVars

\* an hour passes
Tick ==
  /\ sm.now < MaxTicks * HourMs
  /\ sm' = [sm EXCEPT !.now = @ + HourMs]
  /\ UNCHANGED OtherVars

\* subscribeWithTracking(redis, sessionManager, channel, callback): throws
\* when sessionManager.isActive is false, else calls redis.subscribe
SubscribeWithTracking(m, c) ==
  /\ sm.mgr[m].created
  /\ sm.calls < MaxCalls
  /\ sm' = IF ~sm.mgr[m].isActiveProp
           THEN [sm EXCEPT !.calls = @ + 1, !.mgr[m].threw = TRUE]
           ELSE [sm EXCEPT !.calls = @ + 1,
                           !.mgr[m].subCalls[c] = @ + 1,
                           !.mgr[m].subAwait[c] = @ + 1]
  /\ UNCHANGED OtherVars

\* await redis.subscribe settles: resolved, the listener is on the channel
\* and subscriptions.add(channel) runs; rejected, the call throws
SubscribeSettle(m, c, ok) ==
  /\ sm.mgr[m].subAwait[c] > 0
  /\ sm' = IF ok
           THEN [sm EXCEPT !.mgr[m].subAwait[c] = @ - 1,
                           !.broker = @ \cup {<<c, m>>},
                           !.mgr[m].subscriptions = SetAdd(@, c)]
           ELSE [sm EXCEPT !.mgr[m].subAwait[c] = @ - 1]
  /\ UNCHANGED OtherVars

\* unsubscribeWithTracking(redis, sessionManager, channel): redis.unsubscribe
\* is called
UnsubscribeWithTracking(m, c) ==
  /\ sm.mgr[m].created
  /\ sm.calls < MaxCalls
  /\ sm' = [sm EXCEPT !.calls = @ + 1,
                      !.mgr[m].unsubCalls[c] = @ + 1,
                      !.mgr[m].unsubAwait[c] = @ + 1]
  /\ UNCHANGED OtherVars

\* await redis.unsubscribe settles: resolved, subscriptions.delete(channel);
\* rejected, the error is caught and logged
UnsubscribeSettle(m, c, ok) ==
  /\ sm.mgr[m].unsubAwait[c] > 0
  /\ sm' = IF ok
           THEN [sm EXCEPT !.mgr[m].unsubAwait[c] = @ - 1,
                           !.broker = BrokerUnsubscribe(@, c),
                           !.mgr[m].subscriptions = SetDelete(@, c)]
           ELSE [sm EXCEPT !.mgr[m].unsubAwait[c] = @ - 1]
  /\ UNCHANGED OtherVars

\* manager.cleanup() called directly
Cleanup(m) ==
  /\ sm.mgr[m].created
  /\ sm' = CleanupCall(sm, m)
  /\ UNCHANGED OtherVars

\* cleanupStaleSessions(maxAgeMs): cleanup() of every registered session
\* older than maxAgeMs is called; the awaited Promise.all holds no state
CleanupStaleSessions(maxAgeMs) ==
  /\ sm' = CleanupEach(sm,
             SelectSeq(SessionValues(sm),
                       LAMBDA m : sm.now - sm.mgr[m].createdAt > maxAgeMs))
  /\ UNCHANGED OtherVars

\* cleanupAllSessions(): cleanup() of every registered session is called
CleanupAllSessions ==
  /\ sm' = CleanupEach(sm, SessionValues(sm))
  /\ UNCHANGED OtherVars

\* the cleanup loop stopping at a rejected unsubscribe
CleanupSettleStopsOnFailure(m, ok) ==
  /\ sm.mgr[m].cpc = "unsub"
  /\ LET c == Head(sm.mgr[m].todo)
         rest == Tail(sm.mgr[m].todo)
         t == [sm EXCEPT !.broker = IF ok THEN BrokerUnsubscribe(@, c) ELSE @,
                         !.mgr[m].unsubFailed =
                            IF ok THEN @ ELSE @ \cup {c}]
     IN sm' = IF ~ok THEN [t EXCEPT !.mgr[m].cpc = "done", !.mgr[m].todo = <<>>]
              ELSE IF rest = <<>> THEN CleanupFinish(t, m)
              ELSE [t EXCEPT !.mgr[m].todo = rest,
                             !.mgr[m].cleanupUnsubs = Append(@, Head(rest)),
                             !.mgr[m].unsubCalls[Head(rest)] = @ + 1]
  /\ UNCHANGED OtherVars

\* cleanup: the awaited redis.unsubscribe(channel) settles; a rejection is
\* caught and logged; the loop goes on to the next channel, or the rest of
\* cleanup runs
CleanupSettle(m, ok) ==
  /\ sm.mgr[m].cpc = "unsub"
  /\ LET c == Head(sm.mgr[m].todo)
         rest == Tail(sm.mgr[m].todo)
         t == [sm EXCEPT !.broker = IF ok THEN BrokerUnsubscribe(@, c) ELSE @,
                         !.mgr[m].unsubFailed =
                            IF ok THEN @ ELSE @ \cup {c}]
     IN sm' = IF rest = <<>> THEN CleanupFinish(t, m)
              ELSE [t EXCEPT !.mgr[m].todo = rest,
                             !.mgr[m].cleanupUnsubs = Append(@, Head(rest)),
                             !.mgr[m].unsubCalls[Head(rest)] = @ + 1]
  /\ UNCHANGED OtherVars

InitSM ==
  /\ version = "A"
  /\ relay = [r \in Relays |-> InitRelay]
  /\ listeners = {}
  /\ inflight = <<>>
  /\ foreign = 0
  /\ hm = [r \in Relays |-> InitHm]
  /\ sse = InitSse
  /\ sess = InitSess
  /\ sm = InitSm
  /\ http = InitHttp(DefaultConfig)
  /\ rt = InitRt
  /\ wa = InitWa

\* the exported functions of the session manager and the broker's answers;
\* tracked subscriptions are made on the first manager
NextSM ==
  \/ \E m \in Managers, id \in SessionIds : CreateSessionManager(m, id)
  \/ Tick
  \/ \E c \in SmChannels : SubscribeWithTracking("m1", c)
  \/ \E c \in SmChannels, ok \in BOOLEAN : SubscribeSettle("m1", c, ok)
  \/ \E c \in SmChannels : UnsubscribeWithTracking("m1", c)
  \/ \E c \in SmChannels, ok \in BOOLEAN : UnsubscribeSettle("m1", c, ok)
  \/ \E m \in Managers : Cleanup(m)
  \/ \E a \in MaxAges : CleanupStaleSessions(a)
  \/ CleanupAllSessions
  \/ \E m \in Managers, ok \in BOOLEAN : CleanupSettle(m, ok)

SpecSM == InitSM /\ [][NextSM]_vars

\* ==================================================== the request handler
\* The function mcpApiHandler(req, res) of a handler made by
\* initializeMcpApiHandler, from the request's arrival to its first await,
\* and the continuations of its awaits.  The relay call and the SSE session
\* that follow a successful initializeRedis are modelled step by step in
\* SpecRelay and SpecSse; here they are one step each.

\* res.writeHead(status).end(body); return
Respond(h, q, status, body) ==
  [h EXCEPT !.req[q].status = status, !.req[q].body = body,
            !.req[q].pc = "returned"]

\* acceptHeader.includes(x)
Includes(accept, x) == x \in accept.ranges

\* the Accept header is a non-empty string
Truthy(accept) == accept.present /\ accept.ranges # {}

\* if (!statelessServer) { statelessServer = new McpServer(..); await .. }
\* without the test
EnsureServerUnchecked(h, q) ==
  [h EXCEPT !.statelessServer = h.constructed + 1,
            !.constructed = @ + 1,
            !.req[q].pc = "initializeServer"]

\* if (!statelessServer) { statelessServer = new McpServer(...);
\*   await initializeServer(statelessServer); await connect(...) }
EnsureServer(h, q) ==
  IF h.statelessServer = 0
    THEN [h EXCEPT !.statelessServer = h.constructed + 1,
                   !.constructed = @ + 1,
                   !.req[q].pc = "initializeServer"]
    ELSE [h EXCEPT !.req[q].pc = "readBody"]

\* initializeRedis that creates its clients whatever the module holds
InitializeRedisNoCache(h, q) ==
  IF ~h.cfg.redisUrl
    THEN [h EXCEPT !.req[q].pc = "thrown"]
    ELSE [h EXCEPT !.redis = h.createClient.redis + 1,
                   !.redisPublisher = h.createClient.redisPublisher + 1,
                   !.createClient.redis = @ + 1,
                   !.createClient.redisPublisher = @ + 1,
                   !.req[q].pc = "connecting"]

\* initializeRedis up to its await: the module's pair when both are set,
\* an error without a redisUrl, else two createClient calls and connect()
InitializeRedis(h, q) ==
  IF h.redis # 0 /\ h.redisPublisher # 0
    THEN [h EXCEPT !.req[q].pc = "redisReady",
                   !.req[q].redis = h.redis,
                   !.req[q].redisPublisher = h.redisPublisher,
                   !.req[q].clientsConnected = h.connected]
  ELSE IF ~h.cfg.redisUrl
    THEN [h EXCEPT !.req[q].pc = "thrown"]
    ELSE [h EXCEPT !.redis = h.createClient.redis + 1,
                   !.redisPublisher = h.createClient.redisPublisher + 1,
                   !.createClient.redis = @ + 1,
                   !.createClient.redisPublisher = @ + 1,
                   !.req[q].pc = "connecting"]

\* url.pathname === streamableHttpEndpoint
StreamableHttp(h, q, method) ==
  IF method = "GET" THEN Respond(h, q, "405", MethodNotAllowedJson)
  ELSE IF method = "DELETE" THEN Respond(h, q, "405", MethodNotAllowedJson)
  ELSE IF method = "POST" THEN EnsureServer(h, q)
  ELSE [h EXCEPT !.req[q].pc = "returned"]

\* the SSE endpoint without its test of the method
SseEndpointAnyMethod(h, q, method, accept) ==
  IF h.cfg.disableSse THEN Respond(h, q, "404", Text("Not found"))
  ELSE IF /\ Truthy(accept)
          /\ ~Includes(accept, "text/event-stream")
          /\ ~Includes(accept, "*/*")
          /\ ~Includes(accept, "text/*")
    THEN Respond(h, q, "406", Text("Not Acceptable"))
  ELSE InitializeRedis(h, q)

\* url.pathname === sseEndpoint
SseEndpoint(h, q, method, accept) ==
  IF h.cfg.disableSse THEN Respond(h, q, "404", Text("Not found"))
  ELSE IF method # "GET" THEN Respond(h, q, "405", Text("Method Not Allowed"))
  ELSE IF /\ Truthy(accept)
          /\ ~Includes(accept, "text/event-stream")
          /\ ~Includes(accept, "*/*")
          /\ ~Includes(accept, "text/*")
    THEN Respond(h, q, "406", Text("Not Acceptable"))
  ELSE InitializeRedis(h, q)

\* the message endpoint without its test of disableSse
MessageEndpointAlways(h, q, method) == InitializeRedis(h, q)

\* url.pathname === sseMessageEndpoint
MessageEndpoint(h, q, method) ==
  IF h.cfg.disableSse THEN Respond(h, q, "404", Text("Not found"))
  ELSE InitializeRedis(h, q)

\* mcpApiHandler(req, res) up to its first await
McpApiHandler(h, q, path, method, accept) ==
  IF path = "/mcp" THEN StreamableHttp(h, q, method)
  ELSE IF path = "/sse" THEN SseEndpoint(h, q, method, accept)
  ELSE IF path = "/message" THEN MessageEndpoint(h, q, method)
  ELSE Respond(h, q, "404", Text("Not found"))

\* a request arrives, on a free slot or on one whose request has ended
Arrive(q, path, method, accept, sid) ==
  /\ http.req[q].pc \in {"idle", "returned", "thrown"}
  /\ http.arrivals < MaxArrivals
  /\ LET h == [http EXCEPT !.arrivals = @ + 1,
                           !.req[q] = [InitReq EXCEPT !.path = path,
                                                      !.method = method,
                                                      !.accept = accept,
                                                      !.sid = sid]]
     IN http' = McpApiHandler(h, q, path, method, accept)
  /\ UNCHANGED <<version, relay, listeners, inflight, foreign, hm, sse, sess, sm, rt, wa>>

\* await initializeServer(statelessServer) settles
InitializeServerSettle(q, ok) ==
  /\ http.req[q].pc = "initializeServer"
  /\ http' = [http EXCEPT !.req[q].pc = IF ok THEN "connect" ELSE "thrown"]
  /\ UNCHANGED <<version, relay, listeners, inflight, foreign, hm, sse, sess, sm, rt, wa>>

\* await statelessServer.connect(statelessTransport) resolves
ServerConnectResolve(q) ==
  /\ http.req[q].pc = "connect"
  /\ http' = [http EXCEPT !.serverConnected = TRUE,
                          !.req[q].pc = "readBody"]
  /\ UNCHANGED <<version, relay, listeners, inflight, foreign, hm, sse, sess, sm, rt, wa>>

\* await req.json() / req.text() resolves; the request is handed to
\* statelessTransport.handleRequest, that is to the server connected to it
ReadBody(q) ==
  /\ http.req[q].pc = "readBody"
  /\ http' = [http EXCEPT !.req[q].pc = "handleRequest",
                          !.req[q].server = http.statelessServer,
                          !.req[q].serverConnected = http.serverConnected]
  /\ UNCHANGED <<version, relay, listeners, inflight, foreign, hm, sse, sess, sm, rt, wa>>

\* await statelessTransport.handleRequest(..) resolves, the engine having
\* written its response
HandleRequestResolve(q, st) ==
  /\ http.req[q].pc = "handleRequest"
  /\ http' = Respond(http, q, st, Text("engine"))
  /\ UNCHANGED <<version, relay, listeners, inflight, foreign, hm, sse, sess, sm, rt, wa>>

\* await statelessTransport.handleRequest(..) rejects: catch, throw error
HandleRequestReject(q) ==
  /\ http.req[q].pc = "handleRequest"
  /\ http' = [http EXCEPT !.req[q].pc = "thrown"]
  /\ UNCHANGED <<version, relay, listeners, inflight, foreign, hm, sse, sess, sm, rt, wa>>

\* await Promise.all([redis.connect(), redisPublisher.connect()]) settles
RedisConnectSettle(q, ok) ==
  /\ http.req[q].pc = "connecting"
  /\ http' = IF ok
       THEN [http EXCEPT !.connected = TRUE,
                         !.req[q].pc = "redisReady",
                         !.req[q].redis = http.redis,
                         !.req[q].redisPublisher = http.redisPublisher,
                         !.req[q].clientsConnected = TRUE]
       ELSE [http EXCEPT !.req[q].pc = "thrown"]
  /\ UNCHANGED <<version, relay, listeners, inflight, foreign, hm, sse, sess, sm, rt, wa>>

\* the SSE endpoint after initializeRedis: new SSEServerTransport, the
\* subscription to requests:{sessionId}, server.connect
OpenSseSession(q) ==
  /\ http.req[q].pc = "redisReady"
  /\ http.req[q].path = "/sse"
  /\ http' = [http EXCEPT !.req[q].session = TRUE,
                          !.req[q].subscribed = TRUE,
                          !.req[q].pc = "streaming"]
  /\ UNCHANGED <<version, relay, listeners, inflight, foreign, hm, sse, sess, sm, rt, wa>>

\* the message endpoint after initializeRedis: 400 without a sessionId,
\* else the subscription to the reply channel and the publish to
\* requests:{sessionId}
RelayMessage(q) ==
  /\ http.req[q].pc = "redisReady"
  /\ http.req[q].path = "/message"
  /\ http' = IF SessionIdParam(http.req[q].sid) = ""
       THEN Respond(http, q, "400", Text("No sessionId provided"))
       ELSE [http EXCEPT !.req[q].subscribed = TRUE,
                         !.req[q].published = TRUE,
                         !.req[q].pc = "relaying"]
  /\ UNCHANGED <<version, relay, listeners, inflight, foreign, hm, sse, sess, sm, rt, wa>>

\* the relay call ends: the reply's status, or 408 from the timer
RelayEnd(q, st) ==
  /\ http.req[q].pc = "relaying"
  /\ http' = Respond(http, q, st, Text("relayed"))
  /\ UNCHANGED <<version, relay, listeners, inflight, foreign, hm, sse, sess, sm, rt, wa>>

\* a handler of any configuration, no request taken yet
InitH ==
  /\ version = "A"
  /\ relay = [r \in Relays |-> InitRelay]
  /\ listeners = {}
  /\ inflight = <<>>
  /\ foreign = 0
  /\ hm = [r \in Relays |-> InitHm]
  /\ sse = InitSse
  /\ sess = InitSess
  /\ sm = InitSm
  /\ http \in {InitHttp(c) : c \in Configs}
  /\ rt = InitRt
  /\ wa = InitWa

\* the Accept header is read on the SSE endpoint only, the sessionId
\* parameter on the message endpoint only
NextH ==
  \/ \E q \in Reqs, path \in Paths, method \in Methods :
       \E accept \in (IF path = "/sse" THEN AcceptHeaders ELSE {NoAccept}),
          sid \in (IF path = "/message" THEN QuerySids ELSE {""}) :
         Arrive(q, path, method, accept, sid)
  \/ \E q \in Reqs, ok \in BOOLEAN : InitializeServerSettle(q, ok)
  \/ \E q \in Reqs : ServerConnectResolve(q)
  \/ \E q \in Reqs : ReadBody(q)
  \/ \E q \in Reqs, st \in EngineStatuses : HandleRequestResolve(q, st)
  \/ \E q \in Reqs : HandleRequestReject(q)
  \/ \E q \in Reqs, ok \in BOOLEAN : RedisConnectSettle(q, ok)
  \/ \E q \in Reqs : OpenSseSession(q)
  \/ \E q \in Reqs : RelayMessage(q)
  \/ \E q \in Reqs, st \in EngineStatuses \cup {"408"} : RelayEnd(q, st)

SpecHttp == InitH /\ [][NextH]_vars

\* ==================================================== the relayed message
\* What one request's body goes through between the message endpoint and
\* the engine, and the engine's answer on its way back: JSON.parse and
\* JSON.stringify at both ends of each channel, createFakeIncomingMessage
\* and the capture of writeHead / end.  Values of JavaScript are records
\* [type, v]: the members of an object, the characters of a string, the
\* literal of a number, a boolean or null.

JsString(t) == [type |-> "string", v |-> t]
JsNull == [type |-> "null", v |-> "null"]

\* the text without its first character
Rest(t) == SubSeq(t, 2, Len(t))

\* JSON.stringify of the characters of a string: quotes and backslashes
\* escaped
RECURSIVE Escape(_)
Escape(t) ==
  IF t = "" THEN ""
  ELSE (IF Head(t) \in {"\"", "\\"} THEN "\\" \o Head(t) ELSE Head(t))
       \o Escape(Rest(t))

\* JSON.parse of the characters between the quotes of a string literal
RECURSIVE Unescape(_)
Unescape(t) ==
  IF t = "" THEN ""
  ELSE IF Head(t) = "\\" /\ Len(t) >= 2
    THEN SubSeq(t, 2, 2) \o Unescape(SubSeq(t, 3, Len(t)))
    ELSE Head(t) \o Unescape(Rest(t))

\* the characters between two quotes make a string literal: no quote that
\* is not escaped, no backslash at the end
RECURSIVE ValidInner(_)
ValidInner(t) ==
  IF t = "" THEN TRUE
  ELSE IF Head(t) = "\\" THEN Len(t) >= 2 /\ ValidInner(SubSeq(t, 3, Len(t)))
  ELSE IF Head(t) = "\"" THEN FALSE
  ELSE ValidInner(Rest(t))

\* the text without its white space (of an object's members)
RECURSIVE Strip(_)
Strip(t) ==
  IF t = "" THEN ""
  ELSE (IF Head(t) = " " THEN "" ELSE Head(t)) \o Strip(Rest(t))

\* JSON.parse(text): the value, or ok = FALSE where it throws
JsonParse(t) ==
  IF t = "null" THEN [ok |-> TRUE, value |-> JsNull]
  ELSE IF t \in {"true", "false"}
    THEN [ok |-> TRUE, value |-> [type |-> "boolean", v |-> t]]
  ELSE IF t \in {"0", "1"}
    THEN [ok |-> TRUE, value |-> [type |-> "number", v |-> t]]
  ELSE IF /\ Len(t) >= 2
          /\ Head(t) = "\""
          /\ SubSeq(t, Len(t), Len(t)) = "\""
          /\ ValidInner(SubSeq(t, 2, Len(t) - 1))
    THEN [ok |-> TRUE,
          value |-> JsString(Unescape(SubSeq(t, 2, Len(t) - 1)))]
  ELSE IF /\ Len(t) >= 2
          /\ Head(t) = "{"
          /\ SubSeq(t, Len(t), Len(t)) = "}"
    THEN [ok |-> TRUE,
          value |-> [type |-> "object",
                     v |-> Strip(SubSeq(t, 2, Len(t) - 1))]]
  ELSE [ok |-> FALSE, value |-> JsNull]

\* JSON.stringify(value)
JsonStringify(value) ==
  IF value.type = "string" THEN "\"" \o Escape(value.v) \o "\""
  ELSE IF value.type = "object" THEN "{" \o value.v \o "}"
  ELSE value.v

\* try { parsedBody = JSON.parse(body) } catch { parsedBody = body }
ParseOrRaw(text) ==
  IF JsonParse(text).ok THEN JsonParse(text).value ELSE JsString(text)

\* if (body): null, 0, false and "" are falsy
Falsy(value) ==
  \/ value.type = "null"
  \/ value.type = "number" /\ value.v = "0"
  \/ value.type = "boolean" /\ value.v = "false"
  \/ value.type = "string" /\ value.v = ""

\* createFakeIncomingMessage: the stream the engine reads the body from (a
\* string as it is, any other value through JSON.stringify, nothing for a
\* falsy value) and req.auth = options.auth || getAuthContext()
CreateFakeIncomingMessage(body, optionsAuth, store) ==
  [body |-> IF Falsy(body) THEN ""
            ELSE IF body.type = "string" THEN body.v
            ELSE JsonStringify(body),
   auth |-> IF optionsAuth # NoAuth THEN optionsAuth ELSE store]

\* transport.handlePostMessage(req, res) of the SDK's SSE transport: 202
\* "Accepted" for a JSON-RPC message, 400 naming the body it read otherwise
HandlePostMessage(body) ==
  IF /\ JsonParse(body).ok
     /\ JsonParse(body).value = [type |-> "object", v |-> "\"method\":\"ping\""]
    THEN [status |-> "202", body |-> "Accepted"]
    ELSE [status |-> "400", body |-> "Invalid message: " \o body]

\* the message endpoint: req.text(), JSON.parse, the serialized request
\* published to requests:{sessionId}
SerializeAndPublish(text, auth) ==
  /\ rt.pc = "idle"
  /\ rt' = [rt EXCEPT !.pc = "published", !.text = text, !.auth = auth,
                      !.message = JsonStringify(ParseOrRaw(text))]
  /\ UNCHANGED <<version, relay, listeners, inflight, foreign, hm, sse, sess, sm, http, wa>>

\* handleMessage in the session: JSON.parse(message), the synthetic
\* request, the engine, the reply published with the captured status and body
HandleMessage ==
  /\ rt.pc = "published"
  /\ LET request == JsonParse(rt.message).value
         req == CreateFakeIncomingMessage(request, NoAuth, rt.sessionAuth)
         res == HandlePostMessage(req.body)
     IN rt' = [rt EXCEPT !.pc = "replied",
                         !.engineBody = req.body,
                         !.engineAuth = req.auth,
                         !.reply = [status |-> res.status,
                                    body |-> JsonStringify(JsString(res.body))]]
  /\ UNCHANGED <<version, relay, listeners, inflight, foreign, hm, sse, sess, sm, http, wa>>

\* the relay's callback on the reply channel: JSON.parse(message),
\* sendResponse(response.status, response.body)
ReplyCallback ==
  /\ rt.pc = "replied"
  /\ rt' = [rt EXCEPT !.pc = "done",
                      !.out = [status |-> rt.reply.status,
                               body |-> JsonParse(rt.reply.body).value.v]]
  /\ UNCHANGED <<version, relay, listeners, inflight, foreign, hm, sse, sess, sm, http, wa>>

\* an SSE session opened under any auth context
InitRT ==
  /\ version = "A"
  /\ relay = [r \in Relays |-> InitRelay]
  /\ listeners = {}
  /\ inflight = <<>>
  /\ foreign = 0
  /\ hm = [r \in Relays |-> InitHm]
  /\ sse = InitSse
  /\ sess = InitSess
  /\ sm = InitSm
  /\ http = InitHttp(DefaultConfig)
  /\ rt \in {[InitRt EXCEPT !.sessionAuth = a] : a \in Auths}
  /\ wa = InitWa

NextRT ==
  \/ \E text \in BodyTexts, auth \in Auths : SerializeAndPublish(text, auth)
  \/ HandleMessage
  \/ ReplyCallback

SpecRoundTrip == InitRT /\ [][NextRT]_vars

\* ==================================================== the wrapped handler
\* withMcpAuth(handler, verifyToken, {required, requiredScopes}) of
\* src/src/auth/auth-wrapper.ts: the function it returns, called once.

\* type?.toLowerCase()
ToLowerCase(type) ==
  IF type \in {"Bearer", "BEARER"} THEN "bearer"
  ELSE IF type = "Basic" THEN "basic"
  ELSE type

\* const [type, token] = authHeader?.split(" ") || [];
\* type?.toLowerCase() === "bearer" ? token : undefined
BearerToken(header) ==
  IF header.present /\ ToLowerCase(header.type) = "bearer"
    THEN header.token ELSE Undefined

\* requiredScopes.every((scope) => authInfo.scopes.includes(scope))
HasAllScopes(requiredScopes, authInfo) ==
  \A scope \in requiredScopes.scopes : scope \in authInfo.scopes

\* authInfo.expiresAt && authInfo.expiresAt < Date.now() / 1000
TokenExpired(authInfo, now) ==
  /\ authInfo.expiresAt # NoExpiry
  /\ authInfo.expiresAt # 0
  /\ authInfo.expiresAt * 1000 < now

\* handler(req) called inside the try block: a handler that throws before
\* it returns is answered 500 by the catch
InvokeHandler(w, handlerReturns) ==
  IF handlerReturns
    THEN [w EXCEPT !.invoked = TRUE, !.pc = "handler"]
    ELSE [w EXCEPT !.invoked = TRUE, !.status = "500", !.pc = "done"]

\* new Response(..., {status})
Refuse(w, status) == [w EXCEPT !.status = status, !.pc = "done"]

\* the checks after verifyToken, without the test of the scopes
ChecksWithoutScopes(w, handlerReturns) ==
  IF w.required /\ ~w.authInfo.present THEN Refuse(w, "401")
  ELSE IF ~w.authInfo.present THEN InvokeHandler(w, handlerReturns)
  ELSE IF TokenExpired(w.authInfo, w.now) THEN Refuse(w, "401")
  ELSE InvokeHandler([w EXCEPT !.reqAuth = w.authInfo,
                               !.store = w.authInfo], handlerReturns)

\* the checks after verifyToken resolved: required, the scopes, the expiry;
\* then req.auth = authInfo and withAuthContext(authInfo, () => handler(req))
Checks(w, handlerReturns) ==
  IF w.required /\ ~w.authInfo.present THEN Refuse(w, "401")
  ELSE IF ~w.authInfo.present THEN InvokeHandler(w, handlerReturns)
  ELSE IF /\ w.requiredScopes.defined
          /\ w.requiredScopes.scopes # {}
          /\ ~HasAllScopes(w.requiredScopes, w.authInfo)
    THEN Refuse(w, "403")
  ELSE IF TokenExpired(w.authInfo, w.now) THEN Refuse(w, "401")
  ELSE InvokeHandler([w EXCEPT !.reqAuth = w.authInfo,
                               !.store = w.authInfo], handlerReturns)

\* the wrapped handler is called: the header is read, verifyToken called
CallWrapped(required, requiredScopes, header) ==
  /\ wa.pc = "idle"
  /\ wa' = [wa EXCEPT !.pc = "verifyToken",
                      !.required = required,
                      !.requiredScopes = requiredScopes,
                      !.authorization = header,
                      !.bearerToken = BearerToken(header)]
  /\ UNCHANGED <<version, relay, listeners, inflight, foreign, hm, sse, sess, sm, http, rt>>

\* await verifyToken(req, bearerToken) rejects: 401 "Invalid token"
VerifyTokenReject ==
  /\ wa.pc = "verifyToken"
  /\ wa' = Refuse([wa EXCEPT !.threw = TRUE], "401")
  /\ UNCHANGED <<version, relay, listeners, inflight, foreign, hm, sse, sess, sm, http, rt>>

\* await verifyToken(req, bearerToken) resolves; the checks run and the
\* handler is called, or not
VerifyTokenResolve(authInfo, now, handlerReturns) ==
  /\ wa.pc = "verifyToken"
  /\ wa' = Checks([wa EXCEPT !.authInfo = authInfo, !.now = now],
                  handlerReturns)
  /\ UNCHANGED <<version, relay, listeners, inflight, foreign, hm, sse, sess, sm, http, rt>>

\* the handler's response: the wrapper returns it (or rejects with it)
HandlerSettle(status) ==
  /\ wa.pc = "handler"
  /\ wa' = [wa EXCEPT !.status = status, !.pc = "done"]
  /\ UNCHANGED <<version, relay, listeners, inflight, foreign, hm, sse, sess, sm, http, rt>>

InitWA ==
  /\ version = "A"
  /\ relay = [r \in Relays |-> InitRelay]
  /\ listeners = {}
  /\ inflight = <<>>
  /\ foreign = 0
  /\ hm = [r \in Relays |-> InitHm]
  /\ sse = InitSse
  /\ sess = InitSess
  /\ sm = InitSm
  /\ http = InitHttp(DefaultConfig)
  /\ rt = InitRt
  /\ wa = InitWa

NextWA ==
  \/ \E required \in BOOLEAN, requiredScopes \in RequiredScopesOptions,
        header \in AuthorizationHeaders :
       CallWrapped(required, requiredScopes, header)
  \/ VerifyTokenReject
  \/ \E authInfo \in AuthInfos, now \in Nows, handlerReturns \in BOOLEAN :
       VerifyTokenResolve(authInfo, now, handlerReturns)
  \/ \E status \in {"200", "rejected"} : HandlerSettle(status)

SpecAuth == InitWA /\ [][NextWA]_vars

\* ================================================================ claims
NoUnsubFailure(r) == "unsubscribe" \notin relay[r].failed

HasListener(r) == <<MyReplyChannel(r), r>> \in listeners

C2_SubscribeBeforePublish ==
  \A r \in Relays :
    /\ relay[r].reqPublished => relay[r].subResolved
    /\ relay[r].pc \in {"published", "returned"} /\ relay[r].unsubCalls = 0
         => HasListener(r)
    /\ hm[r].lost => relay[r].unsubCalls > 0
    /\ \A i \in 1..Len(inflight) :
         inflight[i].to = r /\ inflight[i].payload.kind = "reply"
           => HasListener(r) \/ relay[r].unsubCalls > 0

\* the session's reply reached the callback while the relay call was still
\* awaiting its own publish
C2_Witness ==
  \E r \in Relays :
    /\ relay[r].pc = "published"
    /\ Len(relay[r].delivered) >= 1
    /\ relay[r].delivered[1].payload = ReplyMsg(hm[r].status, r)
    /\ ~relay[r].delivered[1].late


\* the handler's main flow and every callback it started have run to an end
Quiescent(r) ==
  /\ relay[r].pc \in {"returned", "thrown", "caught"}
  /\ relay[r].unsubPending = {}

\* the caller's response was ended, or the caller's disconnect was observed
Terminal(r) == relay[r].writes # <<>> \/ relay[r].closedFirst

\* C4: a relay call never stays pending without an armed timer: when its
\* handler and callbacks are at rest and it has neither ended its response
\* nor observed the caller's disconnect, its timeout timer is armed, also
\* after a rejected subscribe or publish.
C4_NeverPendingWithoutTimer ==
  \A r \in Relays :
    Quiescent(r) /\ ~Terminal(r) => relay[r].timeout = "armed"

C7_NoCrossTalk ==
  /\ [](\A r \in Relays :
          \A i \in 1..Len(relay[r].writes) :
            LET w == relay[r].writes[i]
            IN /\ w.via \in {MyReplyChannel(r), <<"timeout">>}
               /\ w.via = MyReplyChannel(r) => w.body = r)
  /\ [][\A r \in Relays :
          HasListener(r) /\ <<MyReplyChannel(r), r>> \notin listeners'
            => relay'[r].unsubPending # relay[r].unsubPending]_vars

\* two calls against the same session were in flight together and each was
\* answered with the engine's reply to its own request
C7_Witness ==
  /\ \A r \in Relays :
       /\ relay[r].sid = OpenSession
       /\ Len(relay[r].writes) = 1
       /\ relay[r].writes[1].via = MyReplyChannel(r)
  /\ \E r \in Relays : HasListener(r)

C9_DisconnectSilent ==
  \A r \in Relays :
    relay[r].closedFirst
      => /\ relay[r].writes = <<>>
         /\ relay[r].unsubCalls >= 1
         /\ relay[r].timeout # "armed"

\* the caller disconnected first and a reply arrived afterwards
C9_Witness ==
  \E r \in Relays :
    /\ relay[r].closedFirst
    /\ relay[r].closeFired
    /\ Len(relay[r].delivered) >= 1
    /\ relay[r].delivered[1].payload.kind = "reply"

\* C10: a message on the reply channel that cannot be parsed into a reply
\* with a status and a body, arriving before any response, is answered with
\* 500 'Internal server error'.
C10_MalformedGives500 ==
  \A r \in Relays :
    \A i \in 1..Len(relay[r].delivered) :
      LET d == relay[r].delivered[i]
      IN d.payload.kind # "reply" /\ ~d.late
         => /\ relay[r].writes # <<>>
            /\ relay[r].writes[1].status = "500"
            /\ relay[r].writes[1].body = "Internal server error"

\* C3: the body of the SSE session's cleanup is entered at most once and
\* SESSION_ENDED is emitted at most once, whatever triggers fire and in
\* whatever order, the onclose raised by cleanup's own close included; a
\* trigger that fires once isCleanedUp is set changes nothing but the record
\* of its having fired (and, for a setup error, the handler's own position).
C3_CleanupOnce ==
  /\ [](sse.runs <= 1 /\ sse.ended <= 1)
  /\ [][sse.isCleanedUp /\ sse'.fired # sse.fired
          => /\ sse' = [sse EXCEPT !.fired = sse'.fired, !.pc = sse'.pc]
             /\ listeners' = listeners]_vars

\* cleanup ran to its end once although four triggers fired
C3_Witness ==
  /\ sse.runs = 1
  /\ sse.cpc = "done"
  /\ sse.connected
  /\ {"close", "error", "server close", "timeout"} \subseteq sse.fired

Triggers == {"server close", "abort", "timeout", "close", "error"}

TornDown ==
  /\ sse.timeout # "armed"
  /\ sse.interval # "set"
  /\ SessionListener \notin listeners \/ sse.unsubFailed
  /\ ~sse.inServers
  /\ sse.ended = 1

\* C6: after a termination trigger of an open session has fired the session
\* is eventually torn down: timers cancelled, requests:{sessionId}
\* unsubscribed (unless the broker rejected the unsubscribe), the server out
\* of the servers list and exactly one SESSION_ENDED emitted.
C6_EventuallyTornDown ==
  /\ (sse.fired \cap Triggers # {}) ~> TornDown
  /\ [](sse.ended <= 1)

\* the session was torn down after the client aborted
C6_Witness ==
  /\ TornDown
  /\ ~sse.unsubFailed
  /\ sse.unsubCalled
  /\ sse.fired = {"abort"}
  /\ sse.pc = "returned"


Threw(k) == \E n \in 1..Len(sess.errors) : sess.errors[n] = k

\* C14: when the engine throws while handling one message, one ERROR event
\* is emitted and only that message's handling ends: no reply is ever
\* published for it, and the step changes neither the session's connection
\* state and timers, nor its subscription, nor the broker's queue, nor the
\* handling of any other message.
C14_EngineFailureIsLocal ==
  /\ [](\A k \in Relays : Threw(k) =>
          /\ hm[k].stage = "threw"
          /\ Cardinality({n \in 1..Len(sess.errors) : sess.errors[n] = k}) = 1
          /\ \A n \in 1..Len(sess.replies) : sess.replies[n].for # k)
  /\ [][\A k \in Relays :
          (hm[k].stage = "engine" /\ hm'[k].stage # "engine"
             /\ hm'[k].wrote = <<>>)
          => /\ sess'.errors = Append(sess.errors, k)
             /\ sse' = sse /\ listeners' = listeners /\ inflight' = inflight
             /\ sess'.replies = sess.replies
             /\ \A j \in Relays \ {k} : hm'[j] = hm[j]]_vars

\* the engine threw on r1 while the session was open; r2, delivered later,
\* was dispatched and answered
C14_Witness ==
  /\ sess.errors = <<"r1">>
  /\ sess.dispatched = <<"r1", "r2">>
  /\ hm["r2"].stage = "done"
  /\ \E n \in 1..Len(sess.replies) : sess.replies[n].for = "r2"
  /\ SessionListener \in listeners
  /\ sse.timeout = "armed" /\ sse.interval = "set"
  /\ sse.pc = "waiting"


RepliesFor(k) == {n \in 1..Len(sess.replies) : sess.replies[n].for = k}

\* C15: for every inbound message whose engine handling returns normally the
\* session publishes exactly one reply: it is published once the engine has
\* returned, never twice and never before, on responses:{sessionId}:
\* {requestId} with the requestId the message carried, and it carries the
\* status code and body the engine wrote to the synthetic response.
C15_OneReplyPerMessage ==
  /\ \A k \in Relays : (hm[k].wrote # <<>>) ~> (RepliesFor(k) # {})
  /\ [](\A k \in Relays :
          /\ Cardinality(RepliesFor(k)) <= 1
          /\ RepliesFor(k) # {} => hm[k].wrote # <<>>
          /\ \A n \in RepliesFor(k) :
               /\ sess.replies[n].chan = <<"responses", OpenSession, k>>
               /\ sess.replies[n].payload.kind = "reply"
               /\ sess.replies[n].payload.status = hm[k].wrote[1]
               /\ sess.replies[n].payload.body = hm[k].wrote[2])

\* two messages of one session were answered, each on its own channel and
\* with its own status
C15_Witness ==
  /\ Len(sess.replies) = 2
  /\ sess.replies[1].for = "r2" /\ sess.replies[1].payload.status = "400"
  /\ sess.replies[2].for = "r1" /\ sess.replies[2].payload.status = "202"
  /\ sess.dispatched = <<"r1", "r2">>


\* C16: a step of one relay call (its timeout, the handling of a well-formed
\* or malformed reply, its caller's disconnect, a rejected or resolved broker
\* call) changes nothing outside that call: the session stays subscribed to
\* requests:{sessionId}, and the reply subscription, timer, responded flag
\* and every other field of each other relay call are unchanged.
C16_RelayFailureFrame ==
  /\ [](SessionListener \in listeners)
  /\ [][\A r \in Relays :
          relay'[r] # relay[r]
          => /\ \A q \in Relays \ {r} : relay'[q] = relay[q]
             /\ \A l \in (listeners' \ listeners) \cup (listeners \ listeners') :
                  l[2] = r]_vars
  /\ [][listeners' # listeners
          => \E r \in Relays : relay'[r] # relay[r]]_vars

\* r1 timed out, a broker call of r1 was rejected and r1 got a malformed
\* reply, while r2 is still pending with its subscription and timer
C16_Witness ==
  /\ relay["r1"].timeout = "fired"
  /\ relay["r1"].failed # {}
  /\ \E n \in 1..Len(relay["r1"].delivered) :
        ParseThrows(relay["r1"].delivered[n].payload)
  /\ relay["r2"].timeout = "armed"
  /\ ~relay["r2"].hasResponded
  /\ HasListener("r2")
  /\ relay["r2"].writes = <<>>


\* C17: the cleanup of a session manager does its work at most once, also
\* when it is called again (directly or by a sweep) while the first call
\* awaits the broker: the body is entered once, each tracked channel is
\* unsubscribed by it once, the registry entry is deleted once and the
\* connection released once; the later call changes nothing.
C17_CleanupWorksOnce ==
  /\ [](\A m \in Managers :
          /\ sm.mgr[m].runs <= 1
          /\ sm.mgr[m].deletes <= 1
          /\ sm.mgr[m].releases <= 1
          /\ \A i, j \in 1..Len(sm.mgr[m].cleanupUnsubs) :
               sm.mgr[m].cleanupUnsubs[i] = sm.mgr[m].cleanupUnsubs[j] => i = j
          /\ sm.mgr[m].overlapped => sm.mgr[m].runs = 1)
  /\ [][\A m \in Managers :
          (~sm.mgr[m].overlapped /\ sm'.mgr[m].overlapped)
          => /\ sm'.mgr[m] = [sm.mgr[m] EXCEPT !.overlapped = TRUE]
             /\ sm'.broker = sm.broker
             /\ (\A o \in Managers \ {m} : sm'.mgr[o] = sm.mgr[o])
                  => sm' = [sm EXCEPT !.mgr[m].overlapped = TRUE]]_vars

\* a second cleanup call came while the first awaited the unsubscribe of
\* the first of two channels; the first call then ran to its end
C17_Witness ==
  /\ sm.mgr["m1"].overlapped
  /\ sm.mgr["m1"].cpc = "done"
  /\ sm.mgr["m1"].snapshot = <<"c1", "c2">>
  /\ sm.mgr["m1"].cleanupUnsubs = <<"c1", "c2">>
  /\ sm.mgr["m1"].deletes = 1 /\ sm.mgr["m1"].releases = 1
  /\ sm.mgr["m2"].cpc = "done"
  /\ sm.activeConnections = 0


\* C18: no subscription outlives its session: once cleanup has completed
\* (no unsubscribe of it having been rejected), no channel is subscribed at
\* the broker for that session manager, whatever subscribeWithTracking calls
\* were awaiting the broker when cleanup ran.
C18_NoSubscriptionOutlivesSession ==
  \A m \in Managers :
    (sm.mgr[m].cpc = "done" /\ sm.mgr[m].unsubFailed = {})
      => \A c \in SmChannels : <<c, m>> \notin sm.broker


C20_NoDoubleSubscribe ==
  \A m \in Managers, c \in SmChannels :
    sm.mgr[m].subCalls[c] - sm.mgr[m].unsubCalls[c] <= 1


Registered(s, o) ==
  \E n \in 1..Len(s.activeSessions) :
    /\ s.activeSessions[n].id = s.mgr[o].sessionId
    /\ s.activeSessions[n].mgr = o

\* C21: the lifecycle operations of one session touch only that session:
\* a step that leaves a live, registered session manager as it was (so is no
\* step of that manager's own lifecycle) neither removes its registry entry
\* nor takes a listener of it off the broker, also when two managers were
\* created with the same session id.
C21_LifecycleTouchesOwnSession ==
  [][\A o \in Managers :
       (sm.mgr[o].isActive /\ sm'.mgr[o] = sm.mgr[o] /\ Registered(sm, o))
       => /\ Registered(sm', o)
          /\ \A c \in SmChannels :
               <<c, o>> \in sm.broker => <<c, o>> \in sm'.broker]_vars

\* C22: on the unified endpoint every request of a verb other than POST
\* (GET, DELETE, and equally PUT or PATCH) that the handler has returned
\* from was answered 405 with the JSON-RPC error body "Method not allowed."
\* (code -32000, id null), and was never handed to the engine.
C22_NonPostGets405 ==
  \A q \in Reqs :
    (/\ http.req[q].path = "/mcp"
     /\ http.req[q].method # "POST"
     /\ http.req[q].pc = "returned")
    => /\ http.req[q].status = "405"
       /\ http.req[q].body = MethodNotAllowedJson
       /\ http.req[q].server = 0

\* the Accept header names text/event-stream, */* or text/*
Compatible(accept) ==
  \/ Includes(accept, "text/event-stream")
  \/ Includes(accept, "*/*")
  \/ Includes(accept, "text/*")

\* a request on the connection endpoint of a handler with SSE enabled
OnSse(q) == http.req[q].path = "/sse" /\ ~http.cfg.disableSse

\* the request went past the endpoint's tests: it called initializeRedis
PastTests(q) ==
  \/ http.req[q].pc \in {"connecting", "redisReady", "streaming", "thrown"}
  \/ http.req[q].session
  \/ http.req[q].subscribed
  \/ http.req[q].redis # 0

C24_MessageEndpointPostOnly ==
  \A q \in Reqs :
    (http.req[q].path = "/message" /\ http.req[q].method # "POST")
    => /\ ~http.req[q].published
       /\ http.req[q].pc = "returned"
            => http.req[q].status \in {"404", "405"}

\* C25: the unified handler constructs at most one McpServer per handler
\* and hands every POST to that same instance, concurrent first POSTs
\* included: statelessServer, once set, never changes, and every request
\* that reached the engine reached the one instance.
C25_OneStatelessServer ==
  /\ [](/\ http.constructed <= 1
        /\ http.statelessServer = http.constructed
        /\ \A q \in Reqs :
             http.req[q].pc \in {"handleRequest"} \/ http.req[q].server # 0
               => /\ http.req[q].server = 1
                  /\ http.req[q].server = http.statelessServer)
  /\ [][http.statelessServer # 0
          => http'.statelessServer = http.statelessServer]_vars

\* two POSTs arrived before the first server was initialized; the second
\* is already with the engine while the first still awaits initializeServer
C25_Witness ==
  /\ http.req["q1"].method = "POST"
  /\ http.req["q1"].path = "/mcp"
  /\ http.req["q1"].pc \in {"initializeServer", "connect"}
  /\ http.req["q2"].method = "POST"
  /\ http.req["q2"].path = "/mcp"
  /\ http.req["q2"].server = 1

\* C26: the broker's subscriber and publisher clients are created at most
\* once each per process, the module's redis and redisPublisher never change
\* once set, and every SSE session and relay call received that same pair
\* from initializeRedis, concurrent first callers included.
C26_BrokerClientsAreSingletons ==
  /\ [](/\ http.createClient.redis <= 1
        /\ http.createClient.redisPublisher <= 1
        /\ http.redis = http.createClient.redis
        /\ http.redisPublisher = http.createClient.redisPublisher
        /\ \A q \in Reqs :
             http.req[q].pc \in {"redisReady", "streaming", "relaying"}
               => /\ http.req[q].redis = 1
                  /\ http.req[q].redisPublisher = 1
                  /\ http.req[q].redis = http.redis
                  /\ http.req[q].redisPublisher = http.redisPublisher
        /\ \A q \in Reqs :
             http.req[q].session \/ http.req[q].published
               => http.req[q].redis = 1 /\ http.req[q].redisPublisher = 1)
  /\ [][/\ http.redis # 0 => http'.redis = http.redis
        /\ http.redisPublisher # 0
             => http'.redisPublisher = http.redisPublisher]_vars

\* an SSE request and a message request both called initializeRedis first:
\* the one streams on the pair the other's call created and still connects
C26_Witness ==
  /\ http.req["q1"].path = "/message"
  /\ http.req["q1"].pc = "connecting"
  /\ http.req["q2"].path = "/sse"
  /\ http.req["q2"].session
  /\ http.req["q2"].redis = 1
  /\ http.req["q2"].redisPublisher = 1

\* C27: the broker is optional: a request on the unified endpoint never
\* calls initializeRedis and never holds a broker client; a step that
\* creates a broker client is a step of a request on the SSE or the message
\* endpoint of a handler whose disableSse is false; with disableSse true
\* every request on these two endpoints is answered 404 and no client is
\* ever created.
C27_BrokerOnlyForSse ==
  /\ [](\A q \in Reqs :
          /\ http.req[q].path = "/mcp"
               => /\ http.req[q].redis = 0
                  /\ http.req[q].redisPublisher = 0
                  /\ ~http.req[q].subscribed
                  /\ ~http.req[q].published
                  /\ http.req[q].pc \notin {"connecting", "redisReady"}
          /\ (/\ http.cfg.disableSse
              /\ http.req[q].path \in {"/sse", "/message"})
               => /\ http.req[q].pc = "returned"
                  /\ http.req[q].status = "404"
                  /\ http.req[q].redis = 0)
  /\ [](http.cfg.disableSse
          => http.createClient = [redis |-> 0, redisPublisher |-> 0])
  /\ [][http'.createClient # http.createClient
          => /\ ~http.cfg.disableSse
             /\ \E q \in Reqs :
                  /\ http'.req[q] # http.req[q]
                  /\ http'.req[q].path \in {"/sse", "/message"}
                  /\ http'.req[q].pc = "connecting"]_vars

\* a handler without redisUrl has served two POSTs on the unified endpoint
\* with the engine's answer, no broker client created
C27_Witness ==
  /\ ~http.cfg.redisUrl
  /\ \A q \in Reqs :
       /\ http.req[q].path = "/mcp"
       /\ http.req[q].method = "POST"
       /\ http.req[q].pc = "returned"
       /\ http.req[q].status \in EngineStatuses
  /\ http.createClient.redis = 0

\* C28: round-trip fidelity: for every request, the response the caller of
\* the message endpoint gets for it through the broker, handleMessage and
\* the synthetic request and response has the status and the body the
\* engine gives when it is handed that request directly.
C28_RoundTripFidelity ==
  rt.pc = "done" => rt.out = HandlePostMessage(rt.text)

\* a required scope is missing from the auth info
MissingScope ==
  /\ wa.authInfo.present
  /\ wa.requiredScopes.defined
  /\ \E scope \in wa.requiredScopes.scopes : scope \notin wa.authInfo.scopes

\* the token's expiresAt is in the past
ExpiresAtInThePast ==
  /\ wa.authInfo.present
  /\ wa.authInfo.expiresAt # NoExpiry
  /\ wa.authInfo.expiresAt * 1000 < wa.now

\* verifyToken has settled and the checks have run
Checked == wa.pc \in {"handler", "done"}

\* the handler was not invoked and the response has this status
RefusedWith(status) ==
  wa.pc = "done" /\ ~wa.invoked /\ wa.status = status

C30_ReplyUnsubscribes ==
  [][\A r \in Relays :
       (/\ version = "A"
        /\ Len(relay'[r].writes) > Len(relay[r].writes)
        /\ relay'[r].writes[Len(relay'[r].writes)].via[1] = "responses")
       => relay'[r].unsubCalls > relay[r].unsubCalls]_vars

\* C31: in the relay handler of revision A, whichever of reply, timeout and
\* caller disconnect comes first drives a single cleanup: for one relay call
\* redis.unsubscribe of the reply channel is issued at most once.
C31_UnsubscribeIssuedOnce ==
  version = "A" => \A r \in Relays : relay[r].unsubCalls <= 1

\* the place of message k among the messages handed to the engine
DispatchedAt(k) ==
  CHOOSE n \in 0..Len(sess.dispatched) :
    IF \E j \in 1..Len(sess.dispatched) : sess.dispatched[j] = k
    THEN n > 0 /\ sess.dispatched[n] = k
    ELSE n = 0

\* C32: a session processes one inbound message at a time: at most one
\* message is between its dispatch to the engine and the publish of its
\* reply, and the replies are published in the order the messages were
\* delivered.
C32_OneMessageAtATime ==
  /\ Cardinality({k \in Relays : hm[k].stage \in {"engine", "publish"}}) <= 1
  /\ \A i, j \in 1..Len(sess.replies) :
       i < j => DispatchedAt(sess.replies[i].for)
                  < DispatchedAt(sess.replies[j].for)

C34_HandlerCompletesAfterCleanup ==
  (version = "B" /\ sse.cpc = "done" /\ sse.pc = "waiting")
  => \/ sse.waitResolved
     \/ sse.timeout = "armed"
     \/ sse.abortHandler

\* C35: when a relay call is finished (its response written, or its
\* cleanup run) no timeout timer is armed for it, in every interleaving.
C35_NoTimerAfterFinish ==
  \A r \in Relays :
    (relay[r].writes # <<>> \/ relay[r].isCleanedUp)
    => relay[r].timeout # "armed"

\* C36: if a relay call's subscribe succeeds and its publish to
\* requests:{sessionId} fails, the reply channel is unsubscribed again: the
\* failed call never leaves its listener on the broker with no unsubscribe
\* under way, no timer armed and no close handler registered (a rejected
\* unsubscribe set aside).
C36_FailedPublishReleasesChannel ==
  \A r \in Relays :
    (/\ "publish" \in relay[r].failed
     /\ "unsubscribe" \notin relay[r].failed
     /\ HasListener(r))
    => \/ relay[r].unsubPending # {}
       \/ relay[r].timeout = "armed"
       \/ relay[r].closeReg

\* C37: a POST to the unified endpoint is handed to
\* statelessTransport.handleRequest only when the lazily created server has
\* completed initializeServer and connect: every request that is at, or has
\* passed, the handleRequest call was handed to a connected server.
C37_EngineReadyBeforeRequest ==
  \A q \in Reqs :
    (http.req[q].path = "/mcp" /\ http.req[q].server # 0)
      => http.req[q].serverConnected

\* C38: initializeRedis hands its clients to a caller only once both
\* connect() calls have completed, and no subscribe or publish is issued
\* on the clients while their connection is pending or has failed.
C38_ClientsConnectedBeforeUse ==
  [][\A q \in Reqs :
       /\ (http.req[q].pc # "redisReady" /\ http'.req[q].pc = "redisReady")
            => http'.connected
       /\ (~http.req[q].subscribed /\ http'.req[q].subscribed)
            => http.connected
       /\ (~http.req[q].published /\ http'.req[q].published)
            => http.connected]_vars

\* C39: subscribeWithTracking on a session whose cleanup has already run
\* fails with 'session is not active' and issues no broker subscribe: once
\* the cleanup body has run for a manager, no step issues redis.subscribe
\* for it, and a tracked subscribe call made then is recorded as thrown.
C39_NoSubscribeAfterCleanup ==
  [][\A m \in Managers :
       sm.mgr[m].runs > 0 =>
         /\ \A c \in SmChannels :
              sm'.mgr[m].subCalls[c] = sm.mgr[m].subCalls[c]
         /\ (\E c \in SmChannels : SubscribeWithTracking(m, c))
              => sm'.mgr[m].threw]_vars

\* C40: the auth attached to the synthetic request built for a relayed
\* message is that of the request that posted the message, or none: what
\* the engine reads as req.auth is the poster's req.auth or nothing.
C40_RelayedAuthIsPosters ==
  rt.pc \in {"replied", "done"} => rt.engineAuth \in {rt.auth, NoAuth}
====
